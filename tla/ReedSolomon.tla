------------------------------ MODULE ReedSolomon ------------------------------
(***************************************************************************)
(* lib/ReedSolomon.cpp and lib/fec: the Reed-Solomon codec that protects an *)
(* AF packet in PFT.  A block goes from the encoder over a channel that     *)
(* damages symbols, and knows some of the places (erasures), to the         *)
(* decoder.  The program only encodes; the receiver of its fragments and    *)
(* setReverse(true) decode.                                                 *)
(*                                                                         *)
(* The codec's parameters are a record par; rs is the control block         *)
(* init_rs() makes of them.  Where the code keeps a polynomial as           *)
(* logarithms (index form) the model keeps its coefficients, and            *)
(* multiplies them by way of the code's own tables.                         *)
(*                                                                         *)
(* init_rs() accepts every polynomial for which x has an order that divides *)
(* nn = 2^symsize - 1, also one that is not primitive.  Its index_of[] then *)
(* has entries that are never set.  Such a codec is constructed here, and   *)
(* not used: what it computes depends on what was in the memory.            *)
(***************************************************************************)
EXTENDS Integers, Sequences, FiniteSets, FiniteSetsExt, Bitwise

CONSTANTS
    NULL,       \* no codec
    MaxSymbol,  \* the largest symbol of the codecs
    Params,     \* parameters ReedSolomon objects are constructed with
    Unset,      \* what malloc() may leave in the entries of index_of[]
    Data(_),    \* the data blocks of a codec that are encoded
    Damage,     \* what the channel adds to a symbol it damages
    MaxDamage,  \* bound: symbols the channel damages in a block
    MaxFalse    \* bound: erasures of symbols that are not damaged

VARIABLES
    rs,         \* rsData: the control block
    asked,      \* history: the parameters of the construction
    stage,      \* "unused", "new", "invalid", "undefined", "ready", "encoded",
                \*   "received", "locating", "decoded"
    sent,       \* the block that was encoded
    word,       \* the block as it was received, and then as it is decoded
    hit,        \* history: the places in it that are damaged
    eras_pos,   \* the places the receiver believes to be damaged
    dec,        \* the decoder's syndromes s, lambda, b, el and r
    loc,        \* the places the decoder reports in eras_pos[]
    ret         \* what the decoder returned

rsVars == <<rs, asked, stage, sent, word, hit, eras_pos, dec, loc, ret>>

\* The sum of two symbols, as a table, and of f(0) .. f(n).
Plus == [x \in 0 .. MaxSymbol |-> [y \in 0 .. MaxSymbol |-> x ^^ y]]
Sum(n, f(_)) ==
    LET acc[i \in -1 .. n] == IF i = -1 THEN 0 ELSE Plus[acc[i - 1]][f(i)]
    IN  acc[n]
-----------------------------------------------------------------------------
(* init_rs() *)

\* The ranges of the parameters.
ParametersInRange(par) ==
    /\ par.symsize \in 0 .. 8
    /\ par.fcr \in 0 .. 2^par.symsize - 1
    /\ par.prim \in 1 .. 2^par.symsize - 1
    /\ par.nroots \in 0 .. 2^par.symsize - 1
    /\ par.pad >= 0 /\ par.pad < 2^par.symsize - 1 - par.nroots

\* One step of the shift register sr.
srNext(par, x) ==
    LET nn == 2^par.symsize - 1
    IN  (IF 2 * x > nn THEN (2 * x) ^^ par.gfpoly ELSE 2 * x) % (nn + 1)

\* The contents of sr from x on, over n steps (taken in two halves).
RECURSIVE srSteps(_, _, _)
srSteps(par, x, n) ==
    IF n = 0 THEN <<x>>
    ELSE LET half == srSteps(par, x, (n - 1) \div 2)
         IN  half \o srSteps(par, srNext(par, half[Len(half)]), n \div 2)

\* What is in sr at first and after each of the nn steps.
sr(par) == srSteps(par, 1, 2^par.symsize - 1)

\* The generator is 1 again after nn steps, or the polynomial is refused.
returnsToOne(par) == sr(par)[2^par.symsize] = 1

\* The values iprim takes in the search for a multiple of prim, before they repeat
\* modulo prim; without one the loop never ends but by overflow.
iprims(par) ==
    LET nn == 2^par.symsize - 1
    IN  {i \in {1 + k * nn : k \in 0 .. par.prim - 1} : i % par.prim = 0}

\* modnn() of rs-common.h: x modulo nn, for x that are not negative.
RECURSIVE modnn(_, _)
modnn(nn, x) ==
    IF x >= nn THEN modnn(nn, ((x - nn) \div (nn + 1)) + ((x - nn) % (nn + 1))) ELSE x

\* The product of two symbols, by their logarithms; log(zero) is apart.
Mul(r, a, b) ==
    IF a = 0 \/ b = 0 THEN 0
    ELSE r.alpha_to[modnn(r.nn, r.index_of[a] + r.index_of[b])]

\* The power of the generator with exponent k >= 0.
Exp(r, k) == r.alpha_to[modnn(r.nn, k)]

\* The generator polynomial after the roots 0 .. n - 1, multiplied by one root
\* at a time.
RECURSIVE GenPoly(_, _, _)
GenPoly(r, par, n) ==
    IF n = 0 THEN [j \in 0 .. par.nroots |-> IF j = 0 THEN 1 ELSE 0]
    ELSE LET g == GenPoly(r, par, n - 1)
             root == Exp(r, (par.fcr + n - 1) * par.prim)
         IN  [j \in 0 .. par.nroots |->
                Plus[IF j = 0 THEN 0 ELSE g[j - 1]][Mul(r, g[j], root)]]

Accepted(par) == ParametersInRange(par) /\ returnsToOne(par)

\* The generated tables; index_of[] is written for the values of sr only, a later
\* step over an earlier one.
init_rs(par, unset) ==
    LET nn == 2^par.symsize - 1
        powers == sr(par)
        steps(x) == {i \in 0 .. nn - 1 : powers[i + 1] = x}
        t == [nn |-> nn,
              alpha_to |-> [i \in 0 .. nn |-> IF i = nn THEN 0 ELSE powers[i + 1]],
              index_of |-> [x \in 0 .. nn |->
                  IF x = 0 THEN nn ELSE IF steps(x) = {} THEN unset ELSE Max(steps(x))]]
    IN  [par |-> par, nn |-> nn, alpha_to |-> t.alpha_to, index_of |-> t.index_of,
         genpoly |-> GenPoly(t, par, par.nroots),
         nroots |-> par.nroots, fcr |-> par.fcr, prim |-> par.prim,
         iprim |-> Min(iprims(par)) \div par.prim, pad |-> par.pad]
-----------------------------------------------------------------------------
(* encode_rs() *)

\* Mutant: the coefficients of the generator are used from the highest on.
EncodeStepWrong(r, parity, x) ==
    LET feedback == Plus[x][parity[0]]
    IN  [j \in 0 .. r.nroots - 1 |->
            Plus[IF j = r.nroots - 1 THEN 0 ELSE parity[j + 1]]
                [Mul(r, feedback, r.genpoly[r.nroots - j])]]

\* One data symbol goes into the shift register of parity symbols.
EncodeStep(r, parity, x) ==
    LET feedback == Plus[x][parity[0]]
    IN  [j \in 0 .. r.nroots - 1 |->
            Plus[IF j = r.nroots - 1 THEN 0 ELSE parity[j + 1]]
                [Mul(r, feedback, r.genpoly[r.nroots - j - 1])]]

\* The data followed by its parity.
encode_rs(r, data) ==
    LET parity[n \in 0 .. Len(data)] ==
            IF n = 0 THEN [j \in 0 .. r.nroots - 1 |-> 0]
            ELSE EncodeStep(r, parity[n - 1], data[n])
    IN  data \o [j \in 1 .. r.nroots |-> parity[Len(data)][j - 1]]
-----------------------------------------------------------------------------
(* decode_rs() *)

Coef(p, j) == IF j < 0 THEN 0 ELSE p[j]

\* The polynomial p, up to degree n, at the i-th power of the generator.
Eval(r, p, n, i) == Sum(n, LAMBDA j : Mul(r, p[j], Exp(r, i * j)))

Degree(p) == Max({0} \cup {j \in DOMAIN p : p[j] # 0})

\* The syndromes: the block at the roots of the generator, by Horner's rule.
Syndromes(r, data) ==
    [i \in 0 .. r.nroots - 1 |->
        LET s[n \in 0 .. Len(data)] ==
                IF n = 0 THEN 0
                ELSE Plus[data[n]][Mul(r, s[n - 1], Exp(r, (r.fcr + i) * r.prim))]
        IN  s[Len(data)]]

\* The polynomial that has a root for each of the erasures.
RECURSIVE ErasureLocator(_, _)
ErasureLocator(r, eras) ==
    IF eras = {} THEN [j \in 0 .. r.nroots |-> IF j = 0 THEN 1 ELSE 0]
    ELSE LET e == Max(eras)
             p == ErasureLocator(r, eras \ {e})
             u == Exp(r, r.prim * (r.nn - 1 - e))
         IN  [j \in 0 .. r.nroots |-> Plus[p[j]][Mul(r, u, Coef(p, j - 1))]]

\* Mutant: the length of the register is compared without the erasures.
BMStepNoErasures(r, noEras, m) ==
    LET step == m.r + 1
        discr == Sum(step - 1, LAMBDA i : Mul(r, m.lambda[i], m.s[step - i - 1]))
        shifted == [j \in 0 .. r.nroots |-> Coef(m.b, j - 1)]
        t == [j \in 0 .. r.nroots |-> Plus[m.lambda[j]][Mul(r, discr, shifted[j])]]
        inverse == Exp(r, r.nn - r.index_of[discr])
    IN  IF discr = 0 THEN [m EXCEPT !.r = step, !.b = shifted]
        ELSE IF 2 * m.el <= step - 1
        THEN [m EXCEPT !.r = step, !.lambda = t, !.el = step + noEras - m.el,
                       !.b = [j \in 0 .. r.nroots |-> Mul(r, m.lambda[j], inverse)]]
        ELSE [m EXCEPT !.r = step, !.lambda = t, !.b = shifted]

\* One step of the Berlekamp-Massey algorithm.
BMStep(r, noEras, m) ==
    LET step == m.r + 1
        discr == Sum(step - 1, LAMBDA i : Mul(r, m.lambda[i], m.s[step - i - 1]))
        shifted == [j \in 0 .. r.nroots |-> Coef(m.b, j - 1)]
        t == [j \in 0 .. r.nroots |-> Plus[m.lambda[j]][Mul(r, discr, shifted[j])]]
        inverse == Exp(r, r.nn - r.index_of[discr])
    IN  IF discr = 0 THEN [m EXCEPT !.r = step, !.b = shifted]
        ELSE IF 2 * m.el <= step + noEras - 1
        THEN [m EXCEPT !.r = step, !.lambda = t, !.el = step + noEras - m.el,
                       !.b = [j \in 0 .. r.nroots |-> Mul(r, m.lambda[j], inverse)]]
        ELSE [m EXCEPT !.r = step, !.lambda = t, !.b = shifted]

\* The Chien search: the roots of lambda, as exponents.
Roots(r, lambda) ==
    {i \in 1 .. r.nn : Eval(r, lambda, Degree(lambda), i) = 0}

\* The place of a root in the block, the padding included.
Location(r, root) == modnn(r.nn, root * r.iprim + r.nn - 1)

\* The evaluator polynomial: s times lambda, below the degree of lambda.
Omega(r, m) ==
    [i \in 0 .. Degree(m.lambda) - 1 |->
        Sum(i, LAMBDA j : Mul(r, m.s[i - j], m.lambda[j]))]

\* The value of the error at a root.
Forney(r, m, root) ==
    LET deg == Degree(m.lambda)
        num1 == Eval(r, Omega(r, m), deg - 1, root)
        num2 == Exp(r, root * (r.fcr - 1) + r.nn)
        top == IF deg < r.nroots - 1 THEN deg ELSE r.nroots - 1
        den == Sum(top \div 2, LAMBDA i : Mul(r, m.lambda[2 * i + 1], Exp(r, 2 * i * root)))
    IN  IF num1 = 0 THEN 0
        ELSE Exp(r, r.index_of[num1] + r.index_of[num2] + r.nn - r.index_of[den])
-----------------------------------------------------------------------------
(* class ReedSolomon, and the channel. *)

RSInit ==
    /\ rs = NULL /\ asked = NULL /\ stage \in {"unused", "new"}
    /\ sent = <<>> /\ word = <<>>
    /\ hit = {} /\ eras_pos = {} /\ loc = {}
    /\ dec = NULL
    /\ ret = 0

\* The constructor throws if init_rs() has no codec for the parameters.
Construct(par) ==
    /\ stage = "new"
    /\ asked' = par
    /\ \/ /\ ~Accepted(par)
          /\ rs' = NULL /\ stage' = "invalid"
       \/ /\ Accepted(par) /\ iprims(par) = {}
          /\ rs' = NULL /\ stage' = "undefined"
       \/ /\ Accepted(par) /\ iprims(par) # {}
          /\ \E unset \in Unset : rs' = init_rs(par, unset)
          /\ stage' = "ready"
    /\ UNCHANGED <<sent, word, hit, eras_pos, loc, dec, ret>>

\* encode(), not reversed.
Encode(data) ==
    /\ stage = "ready"
    /\ sent' = encode_rs(rs, data)
    /\ word' = sent'
    /\ stage' = "encoded"
    /\ UNCHANGED <<rs, asked, hit, eras_pos, loc, dec, ret>>

\* The channel (external): the symbols at some places are damaged, and the
\* receiver is told about some places.
Channel(places, reported) ==
    /\ stage = "encoded"
    /\ \E d \in [places -> Damage] :
         word' = [k \in DOMAIN word |->
                     IF rs.pad + k - 1 \in places
                     THEN Plus[word[k]][d[rs.pad + k - 1]] ELSE word[k]]
    /\ hit' = places
    /\ eras_pos' = reported
    /\ stage' = "received"
    /\ UNCHANGED <<rs, asked, sent, loc, dec, ret>>

\* decode_rs_char(), or encode() reversed, which knows of no erasures: a block
\* whose syndromes are zero is left alone.
DecodeStart ==
    /\ stage = "received"
    /\ LET s == Syndromes(rs, word)
            e == ErasureLocator(rs, eras_pos)
       IN  IF \A i \in DOMAIN s : s[i] = 0
           THEN stage' = "decoded" /\ UNCHANGED dec
           ELSE /\ stage' = "locating"
                /\ dec' = [s |-> s, lambda |-> e, b |-> e,
                         el |-> Cardinality(eras_pos), r |-> Cardinality(eras_pos)]
    /\ UNCHANGED <<rs, asked, sent, word, hit, eras_pos, loc, ret>>

DecodeLocate ==
    /\ stage = "locating" /\ dec.r < rs.nroots
    /\ dec' = BMStep(rs, Cardinality(eras_pos), dec)
    /\ UNCHANGED <<rs, asked, stage, sent, word, hit, eras_pos, loc, ret>>

\* The number of roots is not the degree: the errors cannot be corrected.
DecodeFail ==
    /\ stage = "locating" /\ dec.r = rs.nroots
    /\ Cardinality(Roots(rs, dec.lambda)) # Degree(dec.lambda)
    /\ ret' = -1
    /\ stage' = "decoded"
    /\ UNCHANGED <<rs, asked, sent, word, hit, eras_pos, loc, dec>>

\* The located errors are corrected, except those in the padding.
DecodeCorrect ==
    /\ stage = "locating" /\ dec.r = rs.nroots
    /\ LET roots == Roots(rs, dec.lambda) IN
       /\ Cardinality(roots) = Degree(dec.lambda)
       /\ word' = [k \in DOMAIN word |->
            IF \E i \in roots : Location(rs, i) = rs.pad + k - 1
            THEN Plus[word[k]]
                     [Forney(rs, dec, CHOOSE i \in roots : Location(rs, i) = rs.pad + k - 1)]
            ELSE word[k]]
       /\ ret' = Cardinality(roots)
       /\ loc' = {Location(rs, i) : i \in roots}
    /\ stage' = "decoded"
    /\ UNCHANGED <<rs, asked, sent, hit, eras_pos, dec>>
-----------------------------------------------------------------------------
(* The code, defined without the tables. *)

\* The product of two symbols: polynomials over GF(2), modulo gfpoly.
RECURSIVE Times(_, _, _)
Times(par, a, b) ==
    IF a = 0 \/ b = 0 THEN 0
    ELSE (IF b % 2 = 1 THEN a ELSE 0) ^^
         Times(par, (LET x == 2 * a IN IF x >= 2^par.symsize THEN x ^^ par.gfpoly ELSE x),
               b \div 2)

\* The power k of x, by squaring.
RECURSIVE Power(_, _)
Power(par, k) ==
    IF k = 0 THEN 1
    ELSE LET root == Power(par, k \div 2)
             square == Times(par, root, root)
         IN  IF k % 2 = 0 THEN square ELSE Times(par, square, 2)

\* x has the order nn: its powers are all the symbols but zero.
Primitive(par) ==
    LET nn == 2^par.symsize - 1
    IN  Power(par, nn) = 1 /\ \A k \in 1 .. nn - 1 : Power(par, k) # 1

Coprime(a, b) == \A d \in 2 .. a : ~(a % d = 0 /\ b % d = 0)

\* The value of a block, its first symbol the highest coefficient, at x.
RECURSIVE ValueAt(_, _, _)
ValueAt(par, w, x) ==
    IF w = <<>> THEN 0
    ELSE w[Len(w)] ^^ Times(par, ValueAt(par, SubSeq(w, 1, Len(w) - 1), x), x)

\* A code word is zero at the nroots consecutive roots.
IsCodeword(w) ==
    \A i \in 0 .. rs.nroots - 1 :
        ValueAt(rs.par, w, Power(rs.par, (rs.fcr + i) * rs.prim)) = 0
-----------------------------------------------------------------------------
Places == rs.pad .. rs.nn - 1

RSNext ==
    \/ \E par \in Params : Construct(par)
    \/ stage = "ready" /\ Primitive(asked) /\ \E data \in Data(rs) : Encode(data)
    \/ stage = "encoded" /\ \E places \in SUBSET Places :
            /\ Cardinality(places) <= MaxDamage
            /\ \E reported \in SUBSET Places :
                /\ Cardinality(reported) <= rs.nroots
                /\ Cardinality(reported \ places) <= MaxFalse
                /\ Channel(places, reported)
    \/ DecodeStart \/ DecodeLocate \/ DecodeFail \/ DecodeCorrect
-----------------------------------------------------------------------------
\* Parameters in range with a primitive polynomial and a prim that is coprime to
\* nn give a usable control block: they are not refused, the search for iprim ends,
\* the tables are inverse to each other and iprim divides by prim.  (init_rs() also
\* accepts polynomials that are not primitive, if x has an order that divides nn.)
TablesInverse ==
    /\ stage = "invalid" => ~ParametersInRange(asked) \/ ~Primitive(asked)
    /\ stage = "undefined" => ~Coprime(asked.prim, 2^asked.symsize - 1)
    /\ stage = "ready" =>
        /\ (rs.iprim * rs.prim) % rs.nn = 1
        /\ Primitive(asked) =>
             \A x \in 0 .. rs.nn :
                /\ rs.alpha_to[rs.index_of[x]] = x
                /\ x < rs.nn => rs.alpha_to[x] = Power(asked, x)

\* What encode() makes is a code word that starts with the data, for shortened
\* codes too, by a definition of the field that does not use the tables.
EncodesCodeword == TablesInverse /\ (stage = "encoded" => IsCodeword(sent))

\* The decoder undoes e errors at unknown places and f erasures whenever
\* 2e + f <= nroots, erasures of good symbols included, and reports the places.
Corrects ==
    stage = "decoded" /\ 2 * Cardinality(hit \ eras_pos) + Cardinality(eras_pos) <= rs.nroots =>
        /\ word = sent
        /\ IF hit = {} THEN ret = 0 ELSE loc = hit \cup eras_pos /\ ret = Cardinality(loc)
=============================================================================
