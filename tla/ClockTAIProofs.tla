---------------------------- MODULE ClockTAIProofs ----------------------------
(***************************************************************************)
(* Proofs about ClockTAI, for every set of leap seconds and of expiry       *)
(* times, number of servers, and history of the cache.                      *)
(***************************************************************************)
EXTENDS ClockTAI, FiniteSetTheorems, TLAPS

AtMostOne(S) == \A x, y \in S : x = y
HasMax(S) == \E x \in S : \A y \in S : x >= y

\* One thread at a time runs get_valid_offset(): the main thread before there is
\* an offset, the asynchronous task after, and the task does not fail.
TaskInv ==
    /\ holder = "main" => mpc = "fetching"
    /\ holder = "async" => future = "pending"
    /\ url # 0 => holder # "none"
    /\ mpc \in {"fetching", "aborted"} => m_state = {}
    /\ future # "none" => m_state # {}
    /\ future # "failed"
    /\ future # "ready" => result = {}

\* The bulletin in memory is there once an offset is, and among those that
\* get_valid_offset() chooses from when it has expired.
BulletinInv ==
    /\ m_state # {} => m_bulletin # 0
    /\ url # 0 => m_bulletin \in bulletins /\ m_bulletin <= now /\ HasMax(bulletins)

\* An offset is what its bulletin says of the time at which it was parsed; the
\* bulletin in memory is no older than the one it came from, and the result of
\* the task is no older than the offset in use.
OffsetInv ==
    /\ \A s \in m_state \cup result :
          /\ s.offset = parse_ietf_bulletin(s.expires_at, s.at)
          /\ s.at <= now
          /\ s.expires_at <= m_bulletin
    /\ \A s \in m_state, r \in result : s.expires_at <= r.expires_at /\ s.at <= r.at

TInv ==
    /\ TTypeOK /\ AtMostOne(m_state) /\ AtMostOne(result)
    /\ TaskInv /\ BulletinInv /\ OffsetInv
-----------------------------------------------------------------------------
\* Of the leap seconds any selection can be counted, and a larger one counts more.
LEMMA LeapCount ==
    ASSUME NEW S \in SUBSET Leaps, NEW T \in SUBSET S
    PROVE  /\ Cardinality(S) \in 0 .. Cardinality(Leaps)
           /\ Cardinality(T) \in Nat
           /\ Cardinality(T) <= Cardinality(S)
  <1>1. IsFiniteSet(Leaps)
    BY BulletinAssumption
  <1>2. IsFiniteSet(S) /\ Cardinality(S) <= Cardinality(Leaps)
    BY <1>1, FS_Subset
  <1>3. IsFiniteSet(T) /\ Cardinality(T) <= Cardinality(S)
    BY <1>2, FS_Subset
  <1> QED  BY <1>1, <1>2, <1>3, FS_CardinalityType

\* A later bulletin, parsed later, never yields a smaller offset.
LEMMA ParseMonotonic ==
    ASSUME NEW b \in Nat, NEW c \in Nat, NEW t \in Nat, NEW u \in Nat, b <= c, t <= u
    PROVE  /\ parse_ietf_bulletin(b, t) \in 0 .. Cardinality(Leaps)
           /\ parse_ietf_bulletin(c, u) \in Nat
           /\ parse_ietf_bulletin(b, t) <= parse_ietf_bulletin(c, u)
  <1> DEFINE S == {l \in Leaps : l < b /\ l < t}
             T == {l \in Leaps : l < c /\ l < u}
  <1>1. \A l \in Leaps : l \in Nat
    BY BulletinAssumption
  <1>2. S \in SUBSET T /\ S \in SUBSET Leaps /\ T \in SUBSET Leaps
    BY <1>1
  <1>3. /\ Cardinality(S) \in 0 .. Cardinality(Leaps) /\ Cardinality(T) \in 0 .. Cardinality(Leaps)
        /\ Cardinality(S) <= Cardinality(T)
    BY <1>2, LeapCount
  <1> QED  BY <1>3 DEF parse_ietf_bulletin

\* A set of at most one member has a cardinality of at most one.
LEMMA OneCardinality ==
    ASSUME NEW S, AtMostOne(S)
    PROVE  Cardinality(S) <= 1
  <1>1. CASE S = {}
    BY <1>1, FS_EmptySet
  <1>2. CASE S # {}
    <2>1. PICK x : S = {x}
      BY <1>2 DEF AtMostOne
    <2>2. Cardinality({x}) = 1
      BY FS_Singleton
    <2> QED  BY <2>1, <2>2
  <1> QED  BY <1>1, <1>2

\* The times of a state are numbers.
LEMMA StateTypes ==
    ASSUME NEW s \in State
    PROVE  s.expires_at \in Nat /\ s.at \in Nat
  <1>1. s.expires_at \in Expiries /\ s.at \in 0 .. MaxHour
    BY DEF State
  <1>2. s.expires_at \in Nat
    BY <1>1, BulletinAssumption
  <1>3. s.at \in Nat
    BY <1>1
  <1> QED  BY <1>2, <1>3

\* Parsing a bulletin yields a state.
LEMMA StateFacts ==
    ASSUME TTypeOK, NEW b \in Expiries
    PROVE  /\ state(b) \in State
           /\ state(b).offset = parse_ietf_bulletin(b, now)
           /\ state(b).at = now /\ state(b).expires_at = b
           /\ {state(b)} \subseteq State /\ AtMostOne({state(b)})
           /\ Cardinality({state(b)}) <= 1
  <1>1. now \in Nat /\ b \in Nat /\ now \in 0 .. MaxHour
    BY BulletinAssumption, TAIBoundAssumption DEF TTypeOK
  <1>2. parse_ietf_bulletin(b, now) \in 0 .. Cardinality(Leaps)
    BY <1>1, ParseMonotonic
  <1>3. state(b) \in State
    BY <1>1, <1>2 DEF state, State
  <1>4. AtMostOne({state(b)})
    BY DEF AtMostOne
  <1> QED  BY <1>3, <1>4, OneCardinality DEF state

\* get_valid_offset() ends with a bulletin that is no older than the one in memory.
LEMMA FinishStep ==
    ASSUME TInv, NEW b \in Expiries, m_bulletin <= b, holder # "none", Finish(b),
           cache' \in Expiries \cup {0}, UNCHANGED <<now, restarts, stores>>
    PROVE  TInv'
  <1> DEFINE z == state(b)
  <1>0. TTypeOK /\ TaskInv /\ OffsetInv
    BY DEF TInv
  <1>1. /\ z \in State /\ z.offset = parse_ietf_bulletin(b, now)
        /\ z.at = now /\ z.expires_at = b
        /\ {z} \subseteq State /\ AtMostOne({z}) /\ Cardinality({z}) <= 1
    BY <1>0, StateFacts
  <1>2. b \in Nat /\ b # 0 /\ m_bulletin \in Nat /\ now \in Nat
    BY <1>0, BulletinAssumption, TAIBoundAssumption DEF TTypeOK
  <1>3. /\ m_bulletin' = b /\ holder' = "none" /\ bulletins' = {} /\ url' = 0
        /\ time_now' = time_now /\ now' = now
    BY DEF Finish
  <1>4. \A s \in m_state \cup result : s.expires_at \in Nat /\ s.at \in Nat
    <2> SUFFICES ASSUME NEW s \in State PROVE s.expires_at \in Nat /\ s.at \in Nat
      BY <1>0 DEF TTypeOK
    <2> QED  BY StateTypes
  <1>5. \A s \in m_state \cup result :
            /\ s.offset = parse_ietf_bulletin(s.expires_at, s.at)
            /\ s.at <= now' /\ s.expires_at <= m_bulletin'
    BY <1>0, <1>2, <1>3, <1>4 DEF OffsetInv
  <1>6. 0 \in 0 .. NumUrls + 1
    BY TAIBoundAssumption
  <1>7. CASE holder = "main"
    <2>1. /\ m_state' = {state(b)} /\ m_state_last_updated' = time_now /\ mpc' = "idle"
          /\ UNCHANGED <<future, result>>
      BY <1>7 DEF Finish
    <2>2. m_state = {} /\ future = "none" /\ result = {}
      BY <1>0, <1>7 DEF TaskInv
    <2> HIDE DEF z
    <2>3. m_state' = {z}
      BY <2>1 DEF z
    <2>4. time_now \in 0 .. MaxHour
      BY <1>0, TAIBoundAssumption DEF TTypeOK
    <2>5. TTypeOK'
      BY <1>0, <1>1, <1>3, <1>6, <2>1, <2>3, <2>4 DEF TTypeOK, State
    <2>6. AtMostOne(m_state') /\ AtMostOne(result')
      BY <1>1, <2>1, <2>2, <2>3 DEF AtMostOne
    <2>7. TaskInv'
      BY <1>3, <2>1, <2>2, <2>3 DEF TaskInv
    <2>8. BulletinInv'
      BY <1>2, <1>3 DEF BulletinInv
    <2>9. OffsetInv'
      BY <1>1, <1>2, <1>3, <2>1, <2>2, <2>3 DEF OffsetInv, parse_ietf_bulletin
    <2> QED  BY <2>5, <2>6, <2>7, <2>8, <2>9 DEF TInv
  <1>8. CASE holder = "async"
    <2>1. /\ future' = "ready" /\ result' = {state(b)}
          /\ UNCHANGED <<m_state, m_state_last_updated, mpc>>
      BY <1>8 DEF Finish
    <2>2. m_state # {} /\ mpc \notin {"fetching", "aborted"}
      BY <1>0, <1>8 DEF TaskInv
    <2> HIDE DEF z
    <2>3. result' = {z}
      BY <2>1 DEF z
    <2>4. TTypeOK'
      BY <1>0, <1>1, <1>3, <1>6, <2>1, <2>3 DEF TTypeOK, State
    <2>5. AtMostOne(m_state') /\ AtMostOne(result')
      BY <1>1, <2>1, <2>3 DEF AtMostOne, TInv
    <2>6. TaskInv'
      BY <1>3, <2>1, <2>2 DEF TaskInv
    <2>7. BulletinInv'
      BY <1>2, <1>3 DEF BulletinInv
    <2>8. ASSUME NEW s \in m_state' \cup result'
          PROVE  /\ s.offset = parse_ietf_bulletin(s.expires_at, s.at)
                 /\ s.at <= now' /\ s.expires_at <= m_bulletin'
      BY <1>1, <1>2, <1>3, <1>5, <2>1, <2>3
    <2>9. ASSUME NEW s \in m_state', NEW r \in result'
          PROVE  s.expires_at <= r.expires_at /\ s.at <= r.at
      BY <1>1, <1>3, <1>5, <2>1, <2>3
    <2>10. OffsetInv'
      BY <2>8, <2>9 DEF OffsetInv, parse_ietf_bulletin
    <2> QED  BY <2>4, <2>5, <2>6, <2>7, <2>10 DEF TInv
  <1> QED  BY <1>0, <1>7, <1>8 DEF TTypeOK

\* Each step of get_valid_offset() keeps the invariant.
LEMMA GetValidOffsetStep ==
    ASSUME TInv, get_valid_offset
    PROVE  TInv'
  <1>0. /\ TTypeOK /\ TaskInv /\ BulletinInv /\ OffsetInv
        /\ AtMostOne(m_state) /\ AtMostOne(result)
    BY DEF TInv
  <1>1. /\ now \in Nat /\ m_bulletin \in Nat /\ cache \in Nat /\ url \in Nat
        /\ bulletins \subseteq Nat /\ NumUrls \in Nat
    BY <1>0, BulletinAssumption, TAIBoundAssumption DEF TTypeOK
  <1>2. ASSUME NEW b \in Expiries \cup {0}, usable(b)
        PROVE  b \in Expiries /\ b \in Nat /\ now < b
    BY <1>1, <1>2, BulletinAssumption DEF usable
  <1>3. CASE Acquire
    <2>1. \/ mpc = "fetching" /\ holder' = "main"
          \/ future = "pending" /\ holder' = "async"
      BY <1>3 DEF Acquire
    <2>2. UNCHANGED <<now, cache, m_bulletin, m_state, m_state_last_updated, future,
                      result, mpc, time_now, url, bulletins, restarts, stores>>
      BY <1>3 DEF Acquire
    <2>3. TTypeOK'
      BY <1>0, <2>1, <2>2 DEF TTypeOK, State
    <2>4. TaskInv' /\ BulletinInv' /\ OffsetInv'
      BY <1>0, <2>1, <2>2 DEF TaskInv, BulletinInv, OffsetInv, parse_ietf_bulletin, HasMax
    <2> QED  BY <1>0, <2>2, <2>3, <2>4 DEF TInv, AtMostOne
  <1>4. CASE TakeOwn
    <2>1. m_bulletin \in Expiries /\ m_bulletin <= m_bulletin
      BY <1>0, <1>1, <1>2, <1>4 DEF TakeOwn, TTypeOK
    <2> QED  BY <1>0, <1>4, <2>1, FinishStep DEF TakeOwn, TTypeOK
  <1>5. CASE TakeCache
    <2>1. cache \in Expiries /\ m_bulletin <= cache
      BY <1>0, <1>1, <1>2, <1>5 DEF TakeCache, usable, TTypeOK
    <2> QED  BY <1>0, <1>5, <2>1, FinishStep DEF TakeCache, TTypeOK
  <1>6. CASE Download
    <2>1. /\ holder # "none" /\ m_bulletin <= now
          /\ bulletins' = {m_bulletin, cache} /\ url' = 1
          /\ UNCHANGED <<now, cache, m_bulletin, m_state, m_state_last_updated, future,
                         result, mpc, time_now, holder, restarts, stores>>
      BY <1>1, <1>6 DEF Download, usable
    <2>2. 1 \in 0 .. NumUrls + 1
      BY <1>1
    <2>3. TTypeOK'
      BY <1>0, <2>1, <2>2 DEF TTypeOK, State
    <2>4. HasMax({m_bulletin, cache})
      BY <1>1 DEF HasMax
    <2>5. BulletinInv'
      BY <1>0, <2>1, <2>4 DEF BulletinInv, HasMax
    <2>6. TaskInv' /\ OffsetInv'
      BY <1>0, <2>1 DEF TaskInv, OffsetInv, parse_ietf_bulletin
    <2> QED  BY <1>0, <2>1, <2>3, <2>5, <2>6 DEF TInv, AtMostOne
  <1>7. ASSUME NEW b \in Expiries \cup {0}, TakeDownload(b)
        PROVE  TInv'
    <2>1. b \in Expiries /\ b \in Nat /\ now < b
      BY <1>2, <1>7 DEF TakeDownload
    <2>2. holder # "none" /\ m_bulletin <= now
      BY <1>0, <1>1, <1>7 DEF TakeDownload, TaskInv, BulletinInv
    <2>3. m_bulletin <= b
      BY <1>1, <2>1, <2>2
    <2>4. cache' \in Expiries \cup {0} /\ UNCHANGED <<now, restarts, stores>> /\ Finish(b)
      BY <1>0, <1>7 DEF TakeDownload, TTypeOK
    <2> QED  BY <2>1, <2>2, <2>3, <2>4, FinishStep
  <1>8. ASSUME NEW b \in Expiries \cup {0}, SkipDownload(b)
        PROVE  TInv'
    <2>1. /\ url # 0 /\ url + 1 \in 0 .. NumUrls + 1 /\ url + 1 # 0
          /\ bulletins' \in {bulletins, bulletins \cup {b}}
          /\ url' = url + 1
          /\ UNCHANGED <<now, cache, m_bulletin, m_state, m_state_last_updated, future,
                         result, mpc, time_now, holder, restarts, stores>>
      BY <1>1, <1>8 DEF SkipDownload
    <2>2. TTypeOK'
      BY <1>0, <2>1 DEF TTypeOK, State
    <2>3. HasMax(bulletins')
      <3>1. PICK x \in bulletins : \A y \in bulletins : x >= y
        BY <1>0, <2>1 DEF BulletinInv, HasMax
      <3>2. b \in Nat /\ x \in Nat
        BY <1>1, BulletinAssumption
      <3>3. CASE bulletins' = bulletins
        BY <3>1, <3>3 DEF HasMax
      <3>4. CASE bulletins' = bulletins \cup {b} /\ x >= b
        BY <3>1, <3>4 DEF HasMax
      <3>5. CASE bulletins' = bulletins \cup {b} /\ b >= x
        <4>1. \A y \in bulletins : b >= y
          BY <1>1, <3>1, <3>2, <3>5
        <4> QED  BY <3>2, <3>5, <4>1 DEF HasMax
      <3> QED  BY <2>1, <3>2, <3>3, <3>4, <3>5
    <2>4. BulletinInv'
      BY <1>0, <2>1, <2>3 DEF BulletinInv
    <2>5. TaskInv' /\ OffsetInv'
      BY <1>0, <2>1 DEF TaskInv, OffsetInv, parse_ietf_bulletin
    <2> QED  BY <1>0, <2>1, <2>2, <2>4, <2>5 DEF TInv, AtMostOne
  <1>9. CASE TakeExpired
    <2> DEFINE b == Max(bulletins)
    <2>1. /\ url # 0 /\ Finish(b) /\ UNCHANGED <<now, cache, restarts, stores>>
          /\ \E c \in bulletins : valid(c)
      BY <1>1, <1>9 DEF TakeExpired
    <2>2. holder # "none" /\ m_bulletin \in bulletins /\ HasMax(bulletins)
      BY <1>0, <2>1 DEF TaskInv, BulletinInv
    <2>3. b \in bulletins /\ \A y \in bulletins : b >= y
      BY <2>2 DEF HasMax, Max
    <2> HIDE DEF b
    <2>4. b # 0 /\ m_bulletin <= b
      BY <1>1, <2>1, <2>2, <2>3 DEF valid
    <2>5. b \in Expiries
      BY <1>0, <2>3, <2>4 DEF TTypeOK
    <2> QED  BY <1>0, <2>1, <2>2, <2>4, <2>5, FinishStep DEF TTypeOK
  <1>10. CASE Fail
    <2>1. /\ url # 0 /\ \A b \in bulletins : ~valid(b)
          /\ holder' = "none" /\ bulletins' = {} /\ url' = 0
          /\ UNCHANGED <<now, cache, m_bulletin, m_state, m_state_last_updated, result,
                         time_now, restarts, stores>>
      BY <1>1, <1>10 DEF Fail
    <2>2. m_state = {}
      BY <1>0, <2>1 DEF BulletinInv, valid
    <2>3. holder = "main"
      BY <1>0, <2>1, <2>2 DEF TaskInv, TTypeOK
    <2>4. mpc' = "aborted" /\ future' = future
      BY <1>10, <2>3 DEF Fail
    <2>5. 0 \in 0 .. NumUrls + 1
      BY <1>1
    <2>6. TTypeOK'
      BY <1>0, <2>1, <2>4, <2>5 DEF TTypeOK, State
    <2>7. TaskInv' /\ BulletinInv' /\ OffsetInv'
      BY <1>0, <2>1, <2>2, <2>4 DEF TaskInv, BulletinInv, OffsetInv, parse_ietf_bulletin
    <2> QED  BY <1>0, <2>1, <2>6, <2>7 DEF TInv, AtMostOne
  <1> QED  BY <1>3, <1>4, <1>5, <1>6, <1>7, <1>8, <1>9, <1>10 DEF get_valid_offset

\* Each step of get_offset() keeps the invariant: it takes the task's result.
LEMMA GetOffsetStep ==
    ASSUME TInv, get_offset
    PROVE  TInv'
  <1>0. /\ TTypeOK /\ TaskInv /\ BulletinInv /\ OffsetInv
        /\ AtMostOne(m_state) /\ AtMostOne(result)
    BY DEF TInv
  <1>1. CASE Call
    <2>1. /\ mpc' = "called" /\ time_now' = now /\ mpc = "idle"
          /\ UNCHANGED <<now, cache, m_bulletin, m_state, m_state_last_updated, future,
                         result, holder, url, bulletins, restarts, stores>>
      BY <1>1 DEF Call
    <2>2. TTypeOK'
      <3>1. time_now' \in 0 .. now'
        BY <1>0, <2>1 DEF TTypeOK
      <3> QED  BY <1>0, <2>1, <3>1 DEF TTypeOK, State
    <2>3. TaskInv' /\ BulletinInv' /\ OffsetInv'
      BY <1>0, <2>1 DEF TaskInv, BulletinInv, OffsetInv, parse_ietf_bulletin, HasMax
    <2> QED  BY <1>0, <2>1, <2>2, <2>3 DEF TInv, AtMostOne
  <1>2. CASE FirstCall
    <2>1. /\ mpc' = "fetching" /\ mpc = "called" /\ m_state = {}
          /\ UNCHANGED <<now, cache, m_bulletin, m_state, m_state_last_updated, future,
                         result, time_now, holder, url, bulletins, restarts, stores>>
      BY <1>2 DEF FirstCall
    <2>2. TTypeOK'
      BY <1>0, <2>1 DEF TTypeOK, State
    <2>3. TaskInv' /\ BulletinInv' /\ OffsetInv'
      BY <1>0, <2>1 DEF TaskInv, BulletinInv, OffsetInv, parse_ietf_bulletin, HasMax
    <2> QED  BY <1>0, <2>1, <2>2, <2>3 DEF TInv, AtMostOne
  <1>3. CASE LaterCall
    <2>1. /\ mpc = "called" /\ holder = "none" /\ m_state # {} /\ mpc' = "idle"
          /\ UNCHANGED <<now, cache, m_bulletin, time_now, holder, url, bulletins,
                         restarts, stores>>
      BY <1>3 DEF LaterCall
    <2>2. \/ /\ future = "none" /\ future' = "pending"
             /\ UNCHANGED <<m_state, m_state_last_updated, result>>
          \/ UNCHANGED <<m_state, m_state_last_updated, future, result>>
          \/ /\ future = "ready" /\ future' = "none"
             /\ m_state' = result /\ result' = {}
             /\ m_state_last_updated' = time_now
      BY <1>0, <1>3 DEF LaterCall, Refresh, TaskInv
    <2>3. CASE future = "none" /\ future' = "pending"
               /\ UNCHANGED <<m_state, m_state_last_updated, result>>
      <3>1. TTypeOK'
        BY <1>0, <2>1, <2>3 DEF TTypeOK, State
      <3>2. TaskInv' /\ BulletinInv' /\ OffsetInv'
        BY <1>0, <2>1, <2>3 DEF TaskInv, BulletinInv, OffsetInv, parse_ietf_bulletin, HasMax
      <3> QED  BY <1>0, <2>3, <3>1, <3>2 DEF TInv, AtMostOne
    <2>4. CASE UNCHANGED <<m_state, m_state_last_updated, future, result>>
      <3>1. TTypeOK'
        BY <1>0, <2>1, <2>4 DEF TTypeOK, State
      <3>2. TaskInv' /\ BulletinInv' /\ OffsetInv'
        BY <1>0, <2>1, <2>4 DEF TaskInv, BulletinInv, OffsetInv, parse_ietf_bulletin, HasMax
      <3> QED  BY <1>0, <2>4, <3>1, <3>2 DEF TInv, AtMostOne
    <2>5. CASE /\ future = "ready" /\ future' = "none"
               /\ m_state' = result /\ result' = {}
               /\ m_state_last_updated' = time_now
      <3>1. time_now \in 0 .. MaxHour /\ Cardinality({}) <= 1
        BY <1>0, TAIBoundAssumption, FS_EmptySet DEF TTypeOK
      <3>2. TTypeOK'
        BY <1>0, <2>1, <2>5, <3>1 DEF TTypeOK, State
      <3>3. TaskInv'
        BY <1>0, <2>1, <2>5 DEF TaskInv
      <3>4. BulletinInv' /\ OffsetInv'
        BY <1>0, <2>1, <2>5 DEF BulletinInv, OffsetInv, parse_ietf_bulletin, HasMax
      <3>5. AtMostOne(m_state') /\ AtMostOne(result')
        BY <1>0, <2>5 DEF AtMostOne
      <3> QED  BY <3>2, <3>3, <3>4, <3>5 DEF TInv
    <2> QED  BY <2>2, <2>3, <2>4, <2>5
  <1> QED  BY <1>1, <1>2, <1>3 DEF get_offset

\* The passing of time, other programs and restarts keep the invariant.
LEMMA WorldStep ==
    ASSUME TInv, \/ Tick \/ Restart
                 \/ \E b \in Expiries \cup {0} : OtherStores(b)
    PROVE  TInv'
  <1>0. /\ TTypeOK /\ TaskInv /\ BulletinInv /\ OffsetInv
        /\ AtMostOne(m_state) /\ AtMostOne(result)
    BY DEF TInv
  <1>1. now \in Nat /\ m_bulletin \in Nat
    BY <1>0, BulletinAssumption, TAIBoundAssumption DEF TTypeOK
  <1>2. CASE Tick
    <2>1. /\ now' = now + 1 /\ now < MaxHour
          /\ UNCHANGED <<cache, m_bulletin, m_state, m_state_last_updated, future, result,
                         mpc, time_now, holder, url, bulletins, restarts, stores>>
      BY <1>2 DEF Tick, process
    <2>2. TTypeOK'
      <3>1. now' \in 0 .. MaxHour /\ time_now' \in 0 .. now'
        BY <1>0, <2>1, TAIBoundAssumption DEF TTypeOK
      <3> QED  BY <1>0, <2>1, <3>1 DEF TTypeOK, State
    <2>3. TaskInv'
      BY <1>0, <2>1 DEF TaskInv
    <2>4. BulletinInv'
      BY <1>0, <1>1, <2>1 DEF BulletinInv, HasMax
    <2>5. OffsetInv'
      <3>1. ASSUME NEW s \in m_state \cup result
            PROVE  s.at <= now'
        <4>1. s \in State /\ s.at <= now
          BY <1>0 DEF TTypeOK, OffsetInv
        <4>2. s.at \in Nat
          BY <4>1 DEF State
        <4> QED  BY <1>1, <2>1, <4>1, <4>2
      <3> QED  BY <1>0, <2>1, <3>1 DEF OffsetInv, parse_ietf_bulletin
    <2> QED  BY <1>0, <2>1, <2>2, <2>3, <2>4, <2>5 DEF TInv, AtMostOne
  <1>3. CASE Restart
    <2>1. /\ restarts < MaxRestart /\ restarts' = restarts + 1
          /\ m_bulletin' = 0 /\ m_state' = {} /\ m_state_last_updated' = 0
          /\ future' = "none" /\ result' = {}
          /\ mpc' = "idle" /\ time_now' = 0
          /\ holder' = "none" /\ url' = 0 /\ bulletins' = {}
          /\ UNCHANGED <<now, cache, stores>>
      BY <1>3 DEF Restart
    <2>2. /\ restarts' \in 0 .. MaxRestart /\ 0 \in 0 .. MaxHour /\ 0 \in 0 .. NumUrls + 1
          /\ 0 \in 0 .. now /\ Cardinality({}) <= 1
      BY <1>0, <1>1, <2>1, TAIBoundAssumption, FS_EmptySet DEF TTypeOK
    <2>3. TTypeOK'
      BY <1>0, <2>1, <2>2 DEF TTypeOK
    <2>4. TaskInv' /\ BulletinInv' /\ OffsetInv'
      BY <2>1 DEF TaskInv, BulletinInv, OffsetInv
    <2> QED  BY <2>1, <2>3, <2>4 DEF TInv, AtMostOne
  <1>4. ASSUME NEW b \in Expiries \cup {0}, OtherStores(b)
        PROVE  TInv'
    <2>1. /\ cache' = b /\ stores < MaxStore /\ stores' = stores + 1
          /\ UNCHANGED <<now, m_bulletin, m_state, m_state_last_updated, future, result,
                         mpc, time_now, holder, url, bulletins, restarts>>
      BY <1>4 DEF OtherStores, process
    <2>2. stores' \in 0 .. MaxStore
      BY <1>0, <2>1, TAIBoundAssumption DEF TTypeOK
    <2>3. TTypeOK'
      BY <1>0, <2>1, <2>2 DEF TTypeOK, State
    <2>4. TaskInv' /\ BulletinInv' /\ OffsetInv'
      BY <1>0, <2>1 DEF TaskInv, BulletinInv, OffsetInv, parse_ietf_bulletin, HasMax
    <2> QED  BY <1>0, <2>1, <2>3, <2>4 DEF TInv, AtMostOne
  <1> QED  BY <1>2, <1>3, <1>4

\* The invariant holds when the program starts.
LEMMA TInvInit == TInit => TInv
  <1> SUFFICES ASSUME TInit PROVE TInv
    OBVIOUS
  <1>1. /\ 0 \in 0 .. MaxHour /\ 0 \in 0 .. NumUrls + 1 /\ 0 \in 0 .. MaxRestart
        /\ 0 \in 0 .. MaxStore /\ 0 \in 0 .. 0 /\ Cardinality({}) <= 1
    BY TAIBoundAssumption, FS_EmptySet
  <1>2. TTypeOK
    BY <1>1 DEF TInit, TTypeOK
  <1>3. TaskInv /\ BulletinInv /\ OffsetInv
    BY DEF TInit, TaskInv, BulletinInv, OffsetInv
  <1> QED  BY <1>2, <1>3 DEF TInit, TInv, AtMostOne

\* A step that changes nothing keeps the invariant.
LEMMA TInvStutters ==
    ASSUME TInv, UNCHANGED tvars
    PROVE  TInv'
  <1>1. TTypeOK' /\ AtMostOne(m_state') /\ AtMostOne(result')
    BY DEF TInv, tvars, process, TTypeOK, State, AtMostOne
  <1>2. TaskInv' /\ BulletinInv' /\ OffsetInv'
    BY DEF TInv, tvars, process, TaskInv, BulletinInv, OffsetInv, parse_ietf_bulletin, HasMax
  <1> QED  BY <1>1, <1>2 DEF TInv

\* The inductive invariant holds in every state of the clock.
LEMMA TInvHolds == TSpec => []TInv
  <1>1. TInv /\ [TNext]_tvars => TInv'
    BY GetValidOffsetStep, GetOffsetStep, WorldStep, TInvStutters DEF TNext
  <1> QED  BY <1>1, TInvInit, PTL DEF TSpec

\* Once get_offset() has returned an offset a refresh never fails, however the
\* downloads end and whatever happens to the cache file.
THEOREM RefreshCorrect == TSpec => []RefreshInv
  <1>1. TInv => RefreshInv
    BY DEF TInv, TaskInv, RefreshInv, RefreshNeverFails
  <1> QED  BY <1>1, TInvHolds, PTL

\* An offset from a bulletin that had not expired is the true one at its time.
THEOREM OffsetsCorrect == TSpec => []OffsetCorrect
  <1>1. TInv => OffsetCorrect
    <2> SUFFICES ASSUME TInv, NEW s \in m_state, s.at < s.expires_at
                 PROVE  s.offset = Cardinality({l \in Leaps : l < s.at})
      BY DEF OffsetCorrect
    <2>1. s.offset = Cardinality({l \in Leaps : l < s.expires_at /\ l < s.at})
      BY DEF TInv, OffsetInv, parse_ietf_bulletin
    <2>2. s \in State
      BY DEF TInv, TTypeOK
    <2>3. s.at \in Nat /\ s.expires_at \in Nat
      BY <2>2, StateTypes
    <2>4. \A l \in Leaps : l < s.at => l < s.expires_at
      BY <2>3, BulletinAssumption
    <2>5. {l \in Leaps : l < s.expires_at /\ l < s.at} = {l \in Leaps : l < s.at}
      BY <2>4
    <2> QED  BY <2>1, <2>5
  <1> QED  BY <1>1, TInvHolds, PTL

\* Within one run of the program the offset never goes back.
THEOREM OffsetNeverGoesBack == TSpec => OffsetMonotonic
  <1> DEFINE Step == \A s \in m_state, t \in m_state' : s.offset <= t.offset
  <1>1. ASSUME TInv, TNext
        PROVE  Step
    <2>0. /\ TTypeOK /\ TaskInv /\ OffsetInv /\ AtMostOne(m_state)
      BY <1>1 DEF TInv
    <2>1. ASSUME NEW s \in m_state \cup result
          PROVE  /\ s.expires_at \in Nat /\ s.at \in Nat /\ s.offset \in Nat
                 /\ s.offset = parse_ietf_bulletin(s.expires_at, s.at)
      <3>1. s \in State
        BY <2>0 DEF TTypeOK
      <3>2. s.expires_at \in Nat /\ s.at \in Nat
        BY <3>1, StateTypes
      <3>3. s.offset = parse_ietf_bulletin(s.expires_at, s.at)
        BY <2>0 DEF OffsetInv
      <3> QED  BY <3>2, <3>3, ParseMonotonic
    <2>2. CASE m_state' \subseteq m_state
      <3>1. ASSUME NEW s \in m_state, NEW t \in m_state'
            PROVE  s.offset <= t.offset
        <4>1. s = t
          BY <2>0, <2>2 DEF AtMostOne
        <4> QED  BY <2>1, <4>1
      <3> QED  BY <3>1
    <2>3. CASE m_state = {}
      BY <2>3
    <2>4. CASE m_state' = result
      <3>1. ASSUME NEW s \in m_state, NEW t \in result
            PROVE  s.offset <= t.offset
        <4>1. s.expires_at <= t.expires_at /\ s.at <= t.at
          BY <2>0 DEF OffsetInv
        <4>2. /\ s.expires_at \in Nat /\ s.at \in Nat /\ t.expires_at \in Nat /\ t.at \in Nat
              /\ s.offset = parse_ietf_bulletin(s.expires_at, s.at)
              /\ t.offset = parse_ietf_bulletin(t.expires_at, t.at)
          BY <2>1
        <4>3. parse_ietf_bulletin(s.expires_at, s.at) <= parse_ietf_bulletin(t.expires_at, t.at)
          BY <4>1, <4>2, ParseMonotonic
        <4> QED  BY <4>2, <4>3
      <3> QED  BY <2>4, <3>1
    <2>5. ASSUME NEW b, Finish(b), url # 0 \/ holder # "none"
          PROVE  m_state' = m_state \/ m_state = {}
      BY <2>0, <2>5 DEF Finish, TaskInv
    <2>6. CASE get_valid_offset
      <3>1. m_state' = m_state \/ m_state = {}
        <4>1. CASE Acquire \/ Download \/ Fail
          BY <4>1 DEF Acquire, Download, Fail
        <4>2. CASE TakeOwn \/ TakeCache
          BY <2>5, <4>2 DEF TakeOwn, TakeCache
        <4>3. CASE TakeExpired
          <5>1. url # 0
            BY <4>3, TAIBoundAssumption DEF TakeExpired
          <5> QED  BY <2>5, <4>3, <5>1 DEF TakeExpired
        <4>4. ASSUME NEW b \in Expiries \cup {0}, TakeDownload(b) \/ SkipDownload(b)
              PROVE  m_state' = m_state \/ m_state = {}
          <5>1. url # 0
            BY <4>4 DEF TakeDownload, SkipDownload
          <5> QED  BY <2>5, <4>4, <5>1 DEF TakeDownload, SkipDownload
        <4> QED  BY <2>6, <4>1, <4>2, <4>3, <4>4 DEF get_valid_offset
      <3> QED  BY <2>2, <2>3, <3>1
    <2>7. CASE Call \/ FirstCall
      BY <2>2, <2>7 DEF Call, FirstCall
    <2>8. CASE LaterCall
      BY <2>0, <2>2, <2>4, <2>8 DEF LaterCall, Refresh, TaskInv
    <2>9. CASE Restart
      BY <2>2, <2>9 DEF Restart
    <2>10. CASE Tick \/ \E b \in Expiries \cup {0} : OtherStores(b)
      BY <2>2, <2>10 DEF Tick, OtherStores, process
    <2> QED  BY <1>1, <2>6, <2>7, <2>8, <2>9, <2>10 DEF TNext, get_offset
  <1>2. TInv /\ [TNext]_tvars => [Step]_tvars
    BY <1>1
  <1> QED  BY <1>2, TInvHolds, PTL DEF TSpec, OffsetMonotonic
=============================================================================
