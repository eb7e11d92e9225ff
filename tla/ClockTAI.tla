------------------------------- MODULE ClockTAI -------------------------------
(***************************************************************************)
(* ClockTAI of lib/ClockTAI.cpp: the main thread asks for the TAI-UTC       *)
(* offset with each EDI frame; it comes from a bulletin in memory, in a     *)
(* cache file or on a server, and is refreshed by an asynchronous task once *)
(* per hour.  The servers, the cache file's other users and the end of the  *)
(* process (external) interleave with both threads.                         *)
(*                                                                         *)
(* A bulletin is known by the hour at which it expires, 0 for one that is   *)
(* empty or cannot be parsed, and announces all the leap seconds up to      *)
(* then.  The offset is counted in leap seconds.                            *)
(***************************************************************************)
EXTENDS Naturals, FiniteSets, FiniteSetsExt

CONSTANTS
    Leaps,      \* hours at which a leap second is inserted
    Expiries,   \* hours at which the bulletins expire
    NumUrls,    \* the number of m_bulletin_urls
    MaxHour,    \* bound: the last hour, which stands for all later ones
    MaxRestart, \* bound: how often the program is restarted
    MaxStore    \* bound: bulletins other programs put into the cache

ASSUME BulletinAssumption ==
    /\ Leaps \subseteq Nat /\ IsFiniteSet(Leaps)
    /\ Expiries \subseteq Nat \ {0}
ASSUME TAIBoundAssumption == {NumUrls, MaxHour, MaxRestart, MaxStore} \subseteq Nat

VARIABLES
    now,            \* the time, in hours
    cache,          \* the bulletin in the cache file
    m_bulletin,
    m_state,        \* the offset in use: a set of at most one BulletinState
    m_state_last_updated,
    future,         \* m_offset_future: "none", "pending", "ready", "failed"
    result,         \* the value of the future: a set of at most one BulletinState
    mpc,            \* main: "idle", "called", "fetching", "aborted"
    time_now,       \* the time get_offset() was called
    holder,         \* who runs get_valid_offset(), with the mutex: "none", "main", "async"
    url,            \* the server get_valid_offset() asks next
    bulletins,      \* the bulletins it has seen
    restarts, stores

process == <<m_bulletin, m_state, m_state_last_updated, future, result, mpc,
             time_now, holder, url, bulletins>>
tvars == <<now, cache, process, restarts, stores>>

\* Mutant: the last line of the bulletin counts, even if it is in the future.
parse_last_line(b, t) == Cardinality({l \in Leaps : l < b})

\* Bulletin::state(): the leap seconds in the future are left out.  `at` is a
\* history field, the time at which the bulletin was parsed.
parse_ietf_bulletin(b, t) == Cardinality({l \in Leaps : l < b /\ l < t})
state(b) == [expires_at |-> b, offset |-> parse_ietf_bulletin(b, now), at |-> now]
valid(b) == b # 0
usable(b) == b > now

TInit ==
    /\ now = 0
    /\ cache \in Expiries \cup {0}
    /\ m_bulletin = 0 /\ m_state = {} /\ m_state_last_updated = 0
    /\ future = "none" /\ result = {}
    /\ mpc = "idle" /\ time_now = 0
    /\ holder = "none" /\ url = 0 /\ bulletins = {}
    /\ restarts = 0 /\ stores = 0
-----------------------------------------------------------------------------
(* get_valid_offset(), in the main thread or in the asynchronous task. *)

\* The mutex is released, and the offset handed to main or to the future.
Finish(b) ==
    /\ m_bulletin' = b
    /\ holder' = "none"
    /\ bulletins' = {}
    /\ url' = 0
    /\ IF holder = "main"
       THEN /\ m_state' = {state(b)}
            /\ m_state_last_updated' = time_now
            /\ mpc' = "idle"
            /\ UNCHANGED <<future, result>>
       ELSE /\ future' = "ready"
            /\ result' = {state(b)}
            /\ UNCHANGED <<m_state, m_state_last_updated, mpc>>
    /\ UNCHANGED time_now

\* The mutex is taken, and held until the end, downloads included.
Acquire ==
    /\ holder = "none"
    /\ \/ mpc = "fetching" /\ holder' = "main"
       \/ future = "pending" /\ holder' = "async"
    /\ UNCHANGED <<now, cache, m_bulletin, m_state, m_state_last_updated, future,
                   result, mpc, time_now, url, bulletins, restarts, stores>>

TakeOwn ==
    /\ holder # "none" /\ url = 0
    /\ usable(m_bulletin)
    /\ Finish(m_bulletin)
    /\ UNCHANGED <<now, cache, restarts, stores>>

TakeCache ==
    /\ holder # "none" /\ url = 0
    /\ ~usable(m_bulletin) /\ usable(cache)
    /\ Finish(cache)
    /\ UNCHANGED <<now, cache, restarts, stores>>

\* Mutant: the bulletin in memory is not kept to fall back on.
DownloadCacheOnly ==
    /\ holder # "none" /\ url = 0
    /\ ~usable(m_bulletin) /\ ~usable(cache)
    /\ bulletins' = {cache}
    /\ url' = 1
    /\ UNCHANGED <<now, cache, m_bulletin, m_state, m_state_last_updated, future,
                   result, mpc, time_now, holder, restarts, stores>>

\* Neither bulletin is usable: the servers are asked.
Download ==
    /\ holder # "none" /\ url = 0
    /\ ~usable(m_bulletin) /\ ~usable(cache)
    /\ bulletins' = {m_bulletin, cache}
    /\ url' = 1
    /\ UNCHANGED <<now, cache, m_bulletin, m_state, m_state_last_updated, future,
                   result, mpc, time_now, holder, restarts, stores>>

\* A usable bulletin is taken, and goes to the cache, unless that fails.
TakeDownload(b) ==
    /\ url \in 1 .. NumUrls
    /\ usable(b)
    /\ Finish(b)
    /\ cache' \in {b, cache}
    /\ UNCHANGED <<now, restarts, stores>>

\* The download fails, or yields a bulletin that has expired or is damaged.
SkipDownload(b) ==
    /\ url \in 1 .. NumUrls
    /\ ~usable(b)
    /\ bulletins' \in {bulletins, bulletins \cup {b}}
    /\ url' = url + 1
    /\ UNCHANGED <<now, cache, m_bulletin, m_state, m_state_last_updated, future,
                   result, mpc, time_now, holder, restarts, stores>>

\* Mutant: the bulletins are sorted the wrong way round.
TakeExpiredFirst ==
    /\ url = NumUrls + 1
    /\ \E b \in bulletins : valid(b)
    /\ Finish(Min({b \in bulletins : valid(b)}))
    /\ UNCHANGED <<now, cache, restarts, stores>>

\* No server helps: the valid bulletin that expired last is taken, or the call
\* fails.  The exception ends the program when the main thread gets it.
TakeExpired ==
    /\ url = NumUrls + 1
    /\ \E b \in bulletins : valid(b)
    /\ Finish(Max(bulletins))
    /\ UNCHANGED <<now, cache, restarts, stores>>

Fail ==
    /\ url = NumUrls + 1
    /\ \A b \in bulletins : ~valid(b)
    /\ holder' = "none"
    /\ bulletins' = {}
    /\ url' = 0
    /\ IF holder = "main"
       THEN mpc' = "aborted" /\ UNCHANGED future
       ELSE future' = "failed" /\ UNCHANGED mpc
    /\ UNCHANGED <<now, cache, m_bulletin, m_state, m_state_last_updated, result,
                   time_now, restarts, stores>>

get_valid_offset ==
    \/ Acquire \/ TakeOwn \/ TakeCache \/ Download \/ TakeExpired \/ Fail
    \/ \E b \in Expiries \cup {0} : TakeDownload(b) \/ SkipDownload(b)
-----------------------------------------------------------------------------
(* get_offset() in the main thread. *)

Call ==
    /\ mpc = "idle"
    /\ mpc' = "called"
    /\ time_now' = now
    /\ UNCHANGED <<now, cache, m_bulletin, m_state, m_state_last_updated, future,
                   result, holder, url, bulletins, restarts, stores>>

\* The first call unlocks the mutex and runs get_valid_offset() itself.
FirstCall ==
    /\ mpc = "called" /\ holder = "none"
    /\ m_state = {}
    /\ mpc' = "fetching"
    /\ UNCHANGED <<now, cache, m_bulletin, m_state, m_state_last_updated, future,
                   result, time_now, holder, url, bulletins, restarts, stores>>

\* An hour has passed since the last update.
Due == m_state_last_updated + 1 < time_now \/ time_now = MaxHour

\* Mutant: the future stays valid after its value has been taken.
RefreshKeepsFuture ==
    \/ /\ future = "none"
       /\ future' = "pending"
       /\ UNCHANGED <<m_state, m_state_last_updated, result>>
    \/ /\ future \in {"ready", "failed"}
       /\ m_state' = IF future = "ready" THEN result ELSE m_state
       /\ m_state_last_updated' = time_now
       /\ UNCHANGED <<future, result>>

\* The refresh is launched, and its result taken when it is there.
Refresh ==
    \/ /\ future = "none"
       /\ future' = "pending"
       /\ UNCHANGED <<m_state, m_state_last_updated, result>>
    \/ /\ future = "pending"
       /\ UNCHANGED <<m_state, m_state_last_updated, future, result>>
    \/ /\ future \in {"ready", "failed"}
       /\ m_state' = IF future = "ready" THEN result ELSE m_state
       /\ m_state_last_updated' = IF future = "ready" THEN time_now
                                  ELSE m_state_last_updated + 1
       /\ future' = "none"
       /\ result' = {}

LaterCall ==
    /\ mpc = "called" /\ holder = "none"
    /\ m_state # {}
    /\ IF Due THEN Refresh
       ELSE UNCHANGED <<m_state, m_state_last_updated, future, result>>
    /\ mpc' = "idle"
    /\ UNCHANGED <<now, cache, m_bulletin, time_now, holder, url, bulletins,
                   restarts, stores>>

get_offset == Call \/ FirstCall \/ LaterCall
-----------------------------------------------------------------------------
Tick ==
    /\ now < MaxHour
    /\ now' = now + 1
    /\ UNCHANGED <<cache, process, restarts, stores>>

\* Another program puts a bulletin into the cache file, or damages it.
OtherStores(b) ==
    /\ stores < MaxStore
    /\ stores' = stores + 1
    /\ cache' = b
    /\ UNCHANGED <<now, process, restarts>>

\* The process ends at any point and is started again.
Restart ==
    /\ restarts < MaxRestart
    /\ restarts' = restarts + 1
    /\ m_bulletin' = 0 /\ m_state' = {} /\ m_state_last_updated' = 0
    /\ future' = "none" /\ result' = {}
    /\ mpc' = "idle" /\ time_now' = 0
    /\ holder' = "none" /\ url' = 0 /\ bulletins' = {}
    /\ UNCHANGED <<now, cache, stores>>

TNext ==
    \/ get_valid_offset
    \/ get_offset
    \/ Tick
    \/ \E b \in Expiries \cup {0} : OtherStores(b)
    \/ Restart

TSpec == TInit /\ [][TNext]_tvars

\* Time passes, the threads run, and a download ends one way or the other.
TFairSpec ==
    /\ TSpec
    /\ WF_tvars(Tick)
    /\ WF_tvars(get_valid_offset)
    /\ SF_tvars(Acquire)
    /\ WF_tvars(Call)
    /\ SF_tvars(FirstCall \/ LaterCall)
-----------------------------------------------------------------------------
State == [expires_at : Expiries, offset : 0 .. Cardinality(Leaps), at : 0 .. MaxHour]

\* Type correctness.
TTypeOK ==
    /\ now \in 0 .. MaxHour
    /\ cache \in Expiries \cup {0}
    /\ m_bulletin \in Expiries \cup {0}
    /\ m_state \subseteq State /\ Cardinality(m_state) <= 1
    /\ m_state_last_updated \in 0 .. MaxHour
    /\ future \in {"none", "pending", "ready", "failed"}
    /\ result \subseteq State /\ Cardinality(result) <= 1
    /\ mpc \in {"idle", "called", "fetching", "aborted"}
    /\ time_now \in 0 .. now
    /\ holder \in {"none", "main", "async"}
    /\ url \in 0 .. NumUrls + 1
    /\ bulletins \subseteq Expiries \cup {0}
    /\ restarts \in 0 .. MaxRestart
    /\ stores \in 0 .. MaxStore

\* An offset from a bulletin that had not expired when it was parsed is the true
\* one at that time: announced leap seconds are neither missed nor taken early,
\* wherever the bulletin came from.
OffsetCorrect ==
    \A s \in m_state : s.at < s.expires_at =>
        s.offset = Cardinality({l \in Leaps : l < s.at})

\* Within one run of the program the offset never goes back, whatever the cache
\* and the servers hold: an expired bulletin never replaces a newer one.
OffsetMonotonic ==
    [][\A s \in m_state, t \in m_state' : s.offset <= t.offset]_tvars

\* Once an offset has been known a refresh never fails, however the downloads
\* end: the bulletin in memory, expired or not, is always there to fall back on.
RefreshNeverFails == future # "failed" /\ (m_state # {} => mpc # "aborted")

\* The state of the clock under its mutex: typed, and never without a bulletin to
\* fall back on once it had one.
RefreshInv == TTypeOK /\ RefreshNeverFails

\* A leap second that the bulletin in memory announces is applied in the end,
\* without a restart of the program, and while the bulletin is still valid.
LeapApplied ==
    \A l \in Leaps : l < MaxHour =>
        ((m_state # {} /\ m_bulletin > l) ~>
            (\/ m_state = {}
             \/ \E s \in m_state : s.offset >= Cardinality({k \in Leaps : k <= l})))
=============================================================================
