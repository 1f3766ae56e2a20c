--------------------------- MODULE AlgorithmsProofs ---------------------------
(***************************************************************************)
(* rebaseProgramIndices, for messages of any size and any limit: the       *)
(* permutation pairs programs that sit too high with free slots of the     *)
(* readonly-non-signer band, so following it changes no meaning.  And the  *)
(* pure functions, for all inputs.                                         *)
(***************************************************************************)
EXTENDS RebaseIndices, Algorithms, FunctionProofs

-----------------------------------------------------------------------------
(* rebaseProgramIndices.                                                   *)

\* p is a program that sat too high, s the free slot it was given.
MovedInto(p, s) ==
    /\ p >= MaxIndex /\ p \in programs /\ p \notin todo
    /\ ro <= s /\ s < MaxIndex /\ s \notin programs

\* The permutation consists of such pairs.
Paired ==
    \A i \in Idx : perm[i] # i =>
        /\ perm[perm[i]] = i
        /\ MovedInto(i, perm[i]) \/ MovedInto(perm[i], i)

\* Every program the loop is done with has a slot; none is skipped.
Placed ==
    /\ \A x \in Instrs : prog0[x] \in programs
    /\ \A p \in programs : p >= MaxIndex => p \in todo \/ perm[p] # p
    /\ \A p \in todo : p >= MaxIndex

\* Every slot the search has passed is taken.
Searched ==
    \A s \in Idx : ro <= s /\ s < next /\ s < MaxIndex =>
        s \in programs \/ perm[s] # s

\* The keys swapped so far are those of pairs, and only of pairs.
KeysFollow ==
    /\ \A i \in swapped : i < perm[i]
    /\ todo # {} => swapped = {}
    /\ \A i \in Idx :
          keys[i] = IF i \in swapped \/ perm[i] \in swapped THEN perm[i] ELSE i

Inv ==
    /\ TypeOK /\ ro <= next
    /\ pc # "done" => prog = prog0 /\ refs = refs0
    /\ pc = "collect" => swapped = {} /\ next = ro /\ perm = [i \in Idx |-> i]
    /\ pc \in {"place", "thrown"} => Placed /\ Searched
    /\ Paired
    /\ KeysFollow
    /\ pc = "done" => SameMeaning /\ ProgramsLow
    /\ pc = "thrown" => todo # {} /\ FreeSlots = {}

\* What the pairs mean for one index.
LEMMA PairedIndex ==
    ASSUME TypeOK, Paired, NEW i \in Idx
    PROVE  /\ perm[i] \in Idx /\ perm[perm[i]] = i
           /\ i < ro => perm[i] = i
           /\ i \in todo => (i >= MaxIndex => perm[i] = i)
           /\ i \in programs /\ i < MaxIndex => perm[i] = i
           /\ i >= MaxIndex /\ perm[i] # i => perm[i] < MaxIndex
<1>1. /\ perm[i] \in Idx /\ Idx \subseteq Nat /\ i \in Nat /\ perm[i] \in Nat
      /\ ro \in Nat /\ MaxIndex \in Nat
  <2>1. perm[i] \in Idx
    BY DEF TypeOK
  <2>2. n \in Nat /\ ro \in Nat /\ MaxIndex \in Nat
    BY RebaseAssumption DEF TypeOK
  <2> QED
    BY <2>1, <2>2 DEF Idx
<1>2. CASE perm[i] = i
  BY <1>1, <1>2
<1>3. CASE perm[i] # i
  <2>1. perm[perm[i]] = i /\ (MovedInto(i, perm[i]) \/ MovedInto(perm[i], i))
    BY <1>3 DEF Paired
  <2> QED
    BY <1>1, <2>1 DEF MovedInto
<1> QED
  BY <1>2, <1>3

LEMMA InitHolds == Init => Inv
<1> SUFFICES ASSUME Init PROVE Inv
  OBVIOUS
<1>1. TypeOK
  BY DEF Init, TypeOK, Idx
<1>2. Paired /\ KeysFollow
  BY DEF Init, Paired, KeysFollow, Idx
<1> QED
  BY <1>1, <1>2 DEF Init, Inv

LEMMA CollectKeeps == ASSUME Inv, Collect PROVE Inv'
<1>2. (pc # "done" => prog = prog0 /\ refs = refs0)'
  BY DEF Inv, Collect, msg
<1>3. /\ swapped' = {} /\ next' = ro' /\ perm' = [i \in Idx |-> i]
      /\ n' = n /\ ro' = ro /\ keys' = keys /\ prog' = prog /\ refs' = refs
      /\ prog0' = prog0 /\ refs0' = refs0
  BY DEF Inv, Collect, msg
<1>1. TypeOK'
  <2>1. Idx' = Idx
    BY <1>3 DEF Idx
  <2>2. programs' \subseteq Idx /\ todo' \subseteq programs' /\ pc' \in {"done", "place"}
    BY DEF Inv, TypeOK, Collect
  <2> QED
    BY <1>3, <2>1, <2>2 DEF Inv, TypeOK
<1>4. Paired' /\ KeysFollow' /\ ro' <= next'
  <2>1. \A i \in Idx : perm[i] = i /\ keys[i] = i
    BY DEF Inv, KeysFollow, Collect
  <2>2. Idx' = Idx /\ perm' = perm /\ next' = next
    BY <1>3 DEF Idx, Collect
  <2>3. Paired' /\ KeysFollow'
    BY <1>3, <2>1, <2>2 DEF Paired, KeysFollow
  <2> QED
    BY <1>3, <2>2, <2>3 DEF Inv
<1>5. /\ \A x \in Instrs : prog0[x] \in programs'
      /\ todo' = {i \in programs' : i >= MaxIndex}
  BY DEF Inv, Collect
<1>6. (pc \in {"place", "thrown"} => Placed /\ Searched)'
  BY <1>3, <1>5 DEF Placed, Searched, Inv, TypeOK, Idx
<1>7. pc' = "done" => (SameMeaning /\ ProgramsLow)'
  <2> SUFFICES ASSUME pc' = "done" PROVE (SameMeaning /\ ProgramsLow)'
    OBVIOUS
  <2>1. todo' = {}
    BY DEF Collect
  <2>2. \A x \in Instrs : prog0[x] \in Idx /\ prog0[x] < MaxIndex
    BY <2>1, <1>5, RebaseAssumption DEF Inv, TypeOK, Idx
  <2>3. \A i \in Idx : keys[i] = i
    BY DEF Inv, KeysFollow, Collect
  <2> QED
    BY <2>2, <2>3, <1>3 DEF SameMeaning, ProgramsLow, Inv, TypeOK, Collect
<1>8. pc' \in {"done", "place"} /\ pc' # "collect"
  BY DEF Collect
<1> QED
  BY <1>1, <1>2, <1>4, <1>6, <1>7, <1>8 DEF Inv

LEMMA PlaceKeeps == ASSUME Inv, Place PROVE Inv'
<1>0. /\ pc = "place" /\ todo # {} /\ swapped = {}
      /\ n' = n /\ ro' = ro /\ keys' = keys /\ prog' = prog /\ refs' = refs
      /\ prog0' = prog0 /\ refs0' = refs0 /\ programs' = programs /\ swapped' = swapped
  BY DEF Place, Inv, KeysFollow, msg
<1>1. CASE FreeSlots = {}
  <2>1. pc' = "thrown" /\ todo' = todo /\ perm' = perm /\ next' = next
    BY <1>1 DEF Place
  <2>2. TypeOK' /\ KeysFollow'
    BY <1>0, <2>1 DEF Inv, TypeOK, Idx, KeysFollow
  <2>3. Paired' /\ Searched'
    BY <1>0, <2>1 DEF Inv, Idx, Paired, MovedInto, Searched
  <2>4. Placed' /\ (FreeSlots = {})'
    BY <1>0, <1>1, <2>1 DEF Inv, Idx, Placed, FreeSlots
  <2> QED
    BY <1>0, <2>1, <2>2, <2>3, <2>4 DEF Inv
<1>2. CASE FreeSlots # {}
  <2>1. PICK p \in todo, s \in FreeSlots :
           /\ Least(todo, p) /\ Least(FreeSlots, s)
           /\ perm' = [perm EXCEPT ![p] = s, ![s] = p]
           /\ next' = s + 1
           /\ todo' = todo \ {p}
           /\ pc' = pc
    BY <1>2 DEF Place
  <2>2. /\ p \in Idx /\ p >= MaxIndex /\ p \in programs /\ perm[p] = p
        /\ s \in Idx /\ next <= s /\ s < MaxIndex /\ s \notin programs /\ perm[s] = s
        /\ ro <= s /\ s # p
    <3>1. p \in Idx /\ p >= MaxIndex /\ p \in programs
      BY <1>0 DEF Inv, TypeOK, Placed
    <3>2. perm[p] = p
      BY <3>1, PairedIndex DEF Inv
    <3>3. s \in Idx /\ next <= s /\ s < MaxIndex /\ s \notin programs /\ perm[s] = s
      BY DEF FreeSlots
    <3>4. ro <= s
      BY <3>3 DEF Inv, TypeOK, Idx
    <3> QED
      BY <3>1, <3>2, <3>3, <3>4
  <2>3. /\ perm' \in [Idx -> Idx] /\ perm'[p] = s /\ perm'[s] = p
        /\ \A j \in Idx : j # p /\ j # s => perm'[j] = perm[j] /\ perm[j] # p /\ perm[j] # s
    <3>1. perm' \in [Idx -> Idx] /\ perm'[p] = s /\ perm'[s] = p
      BY <2>1, <2>2 DEF Inv, TypeOK
    <3>2. ASSUME NEW j \in Idx, j # p, j # s
          PROVE  perm'[j] = perm[j] /\ perm[j] # p /\ perm[j] # s
      BY <2>1, <2>2, <3>2, PairedIndex DEF Inv, TypeOK
    <3> QED
      BY <3>1, <3>2
  <2>4. Idx' = Idx
    BY <1>0 DEF Idx
  <2>5. TypeOK'
    <3>1. next' \in Nat
      BY <2>1, <2>2, RebaseAssumption DEF Idx
    <3>2. todo' \subseteq programs'
      BY <1>0, <2>1 DEF Inv, TypeOK
    <3> QED
      BY <1>0, <2>1, <2>3, <2>4, <3>1, <3>2 DEF Inv, TypeOK
  <2>6. ASSUME NEW i \in Idx, perm'[i] # i
        PROVE  perm'[perm'[i]] = i /\ (MovedInto(i, perm[i])' \/ MovedInto(perm[i], i)')
    <3>1. CASE i = p
      BY <3>1, <1>0, <2>1, <2>2, <2>3 DEF MovedInto
    <3>2. CASE i = s
      BY <3>2, <1>0, <2>1, <2>2, <2>3 DEF MovedInto
    <3>3. CASE i # p /\ i # s
      <4>1. perm'[i] = perm[i] /\ perm[i] # i /\ perm[i] \in Idx /\ perm'[perm[i]] = perm[perm[i]]
        BY <3>3, <2>3, <2>6 DEF Inv, TypeOK
      <4>2. perm[perm[i]] = i /\ (MovedInto(i, perm[i]) \/ MovedInto(perm[i], i))
        BY <4>1 DEF Inv, Paired
      <4>3. \A x, y : MovedInto(x, y) => MovedInto(x, y)'
        BY <1>0, <2>1 DEF MovedInto
      <4> QED
        BY <4>1, <4>2, <4>3 DEF MovedInto
    <3> QED
      BY <3>1, <3>2, <3>3
  <2>7. Paired'
    BY <2>4, <2>6 DEF Paired, MovedInto
  <2>8. KeysFollow'
    BY <1>0, <2>4 DEF Inv, KeysFollow
  <2>9. Placed'
    BY <1>0, <2>1, <2>2, <2>3 DEF Inv, Placed, TypeOK
  <2>10. Searched'
    <3> SUFFICES ASSUME NEW t \in Idx, ro <= t, t < s + 1, t < MaxIndex
                 PROVE  t \in programs \/ perm'[t] # t
      BY <1>0, <2>1, <2>4 DEF Searched
    <3>1. CASE t = s
      BY <3>1, <2>2, <2>3
    <3>2. CASE t # s
      <4>1. t < s /\ t # p
        BY <3>2, <2>2, RebaseAssumption DEF Idx
      <4>2. perm'[t] = perm[t]
        BY <3>2, <4>1, <2>3
      <4>3. CASE t < next
        BY <4>2, <4>3, <1>0 DEF Inv, Searched
      <4>4. CASE ~(t < next)
        <5>1. next <= t
          BY <4>4 DEF Inv, TypeOK, Idx
        <5>2. t \notin FreeSlots
          BY <2>1, <2>2, <4>1 DEF Least, Idx
        <5> QED
          BY <4>2, <5>1, <5>2 DEF FreeSlots
      <4> QED
        BY <4>3, <4>4
    <3> QED
      BY <3>1, <3>2
  <2>11. ro' <= next'
    BY <1>0, <2>1, <2>2 DEF Inv, TypeOK, Idx
  <2> QED
    BY <1>0, <2>1, <2>5, <2>7, <2>8, <2>9, <2>10, <2>11 DEF Inv
<1> QED
  BY <1>1, <1>2

LEMMA SwapKeeps == ASSUME Inv, Swap PROVE Inv'
<1>1. PICK i \in Unswapped :
        /\ keys' = [keys EXCEPT ![i] = keys[perm[i]], ![perm[i]] = keys[i]]
        /\ swapped' = swapped \cup {i}
  BY DEF Swap
<1>2. /\ pc = "place" /\ pc' = pc /\ todo = {} /\ todo' = todo /\ n' = n /\ ro' = ro
      /\ prog' = prog /\ refs' = refs /\ programs' = programs /\ perm' = perm
      /\ next' = next /\ prog0' = prog0 /\ refs0' = refs0
  BY DEF Swap
<1>3. Idx' = Idx
  BY <1>2 DEF Idx
<1>4. /\ i \in Idx /\ i < perm[i] /\ i \notin swapped
      /\ perm[i] \in Idx /\ perm[perm[i]] = i
  BY PairedIndex DEF Unswapped, Inv
<1>5. perm[i] \notin swapped
  BY <1>4 DEF Inv, KeysFollow, Idx
<1>6. keys[i] = i /\ keys[perm[i]] = perm[i]
  BY <1>4, <1>5 DEF Inv, KeysFollow
<1>7. TypeOK'
  BY <1>1, <1>2, <1>3, <1>4, <1>6 DEF Inv, TypeOK
<1>8. Paired' /\ Placed' /\ Searched'
  BY <1>2, <1>3 DEF Inv, Paired, MovedInto, Placed, Searched
<1>9. ASSUME NEW j \in Idx
      PROVE  keys'[j] = IF j \in swapped' \/ perm[j] \in swapped' THEN perm[j] ELSE j
  <2>1. CASE j = i
    BY <1>1, <1>4, <1>6, <2>1 DEF Inv, TypeOK
  <2>2. CASE j = perm[i]
    BY <1>1, <1>4, <1>6, <2>2 DEF Inv, TypeOK
  <2>3. CASE j # i /\ j # perm[i]
    <3>1. keys'[j] = keys[j]
      BY <1>1, <2>3 DEF Inv, TypeOK
    <3>2. perm[j] # i
      BY <2>3, PairedIndex DEF Inv
    <3> QED
      BY <1>1, <2>3, <3>1, <3>2 DEF Inv, KeysFollow
  <2> QED
    BY <2>1, <2>2, <2>3
<1>10. KeysFollow'
  BY <1>1, <1>2, <1>3, <1>4, <1>9 DEF Inv, KeysFollow
<1> QED
  BY <1>2, <1>7, <1>8, <1>10 DEF Inv

LEMMA RewriteKeeps == ASSUME Inv, Rewrite PROVE Inv'
<1>1. /\ pc = "place" /\ pc' = "done" /\ todo = {} /\ Unswapped = {}
      /\ n' = n /\ ro' = ro /\ keys' = keys /\ programs' = programs /\ todo' = todo
      /\ perm' = perm /\ next' = next /\ swapped' = swapped
      /\ prog0' = prog0 /\ refs0' = refs0
      /\ prog' = [x \in Instrs |-> perm[prog[x]]]
      /\ refs' = [x \in Refs |-> perm[refs[x]]]
  BY DEF Rewrite, locals
<1>2. Idx' = Idx
  BY <1>1 DEF Idx
<1>3. TypeOK'
  BY <1>1, <1>2 DEF Inv, TypeOK
<1>4. Paired' /\ KeysFollow'
  BY <1>1, <1>2 DEF Inv, Paired, MovedInto, KeysFollow
<1>5. ASSUME NEW i \in Idx PROVE keys[i] = perm[i]
  <2>1. perm[i] \in Idx /\ perm[perm[i]] = i
    BY PairedIndex DEF Inv
  <2>2. CASE i < perm[i]
    BY <1>1, <2>2 DEF Unswapped, Inv, KeysFollow
  <2>3. CASE perm[i] < i
    <3>1. perm[i] \in swapped
      BY <1>1, <2>1, <2>3 DEF Unswapped
    <3> QED
      BY <3>1 DEF Inv, KeysFollow
  <2>4. CASE perm[i] = i
    BY <2>4 DEF Inv, KeysFollow
  <2> QED
    BY <2>1, <2>2, <2>3, <2>4 DEF Idx
<1>6. ASSUME NEW i \in Idx PROVE perm[i] \in Idx /\ keys[perm[i]] = i
  BY <1>5, PairedIndex DEF Inv
<1>7. SameMeaning'
  BY <1>1, <1>6 DEF Inv, TypeOK, SameMeaning
<1>8. ASSUME NEW x \in Instrs PROVE perm[prog[x]] < MaxIndex
  <2>1. prog[x] \in Idx /\ prog[x] \in programs
    BY <1>1 DEF Inv, Placed, TypeOK
  <2>2. CASE prog[x] < MaxIndex
    BY <2>1, <2>2, PairedIndex DEF Inv
  <2>3. CASE prog[x] >= MaxIndex
    <3>1. perm[prog[x]] # prog[x]
      BY <1>1, <2>1, <2>3 DEF Inv, Placed
    <3> QED
      BY <2>1, <2>3, <3>1, PairedIndex DEF Inv
  <2> QED
    BY <2>1, <2>2, <2>3, RebaseAssumption DEF Idx
<1>9. ProgramsLow'
  BY <1>1, <1>8 DEF ProgramsLow
<1> QED
  BY <1>1, <1>3, <1>4, <1>7, <1>9 DEF Inv

LEMMA StutterKeeps == ASSUME Inv, UNCHANGED vars PROVE Inv'
<1>1. /\ n' = n /\ ro' = ro /\ keys' = keys /\ prog' = prog /\ refs' = refs /\ pc' = pc
      /\ programs' = programs /\ todo' = todo /\ perm' = perm /\ next' = next
      /\ swapped' = swapped /\ prog0' = prog0 /\ refs0' = refs0
  BY DEF vars, msg, locals
<1>2. Idx' = Idx
  BY <1>1 DEF Idx
<1>3. TypeOK' /\ Paired' /\ KeysFollow'
  BY <1>1, <1>2 DEF Inv, TypeOK, Paired, MovedInto, KeysFollow
<1>4. (pc \in {"place", "thrown"} => Placed /\ Searched)'
  BY <1>1, <1>2 DEF Inv, Placed, Searched
<1>5. (pc = "done" => SameMeaning /\ ProgramsLow)'
  BY <1>1 DEF Inv, SameMeaning, ProgramsLow
<1>6. (FreeSlots = {})' = (FreeSlots = {})
  BY <1>1, <1>2 DEF FreeSlots
<1> QED
  BY <1>1, <1>2, <1>3, <1>4, <1>5, <1>6 DEF Inv

\* The invariant of the loop, for messages of any size.
THEOREM RebaseInvariant == Spec => []Inv
<1>1. Inv /\ [Next]_vars => Inv'
  BY CollectKeeps, PlaceKeeps, SwapKeeps, RewriteKeeps, StutterKeeps DEF Next
<1> QED
  BY <1>1, InitHolds, PTL DEF Spec

\* rebaseProgramIndices keeps every variable in its type.
THEOREM RebaseTyping == Spec => []TypeOK
<1>1. Inv => TypeOK
  BY DEF Inv
<1> QED
  BY <1>1, RebaseInvariant, PTL

\* The rewritten message calls the same programs with the same accounts.
THEOREM RebaseKeepsMeaning == Spec => []SameMeaning
<1>1. Inv => SameMeaning
  BY DEF Inv, SameMeaning
<1> QED
  BY <1>1, RebaseInvariant, PTL

\* The rewritten message is one the ER accepts.
THEOREM RebaseLowersPrograms == Spec => []ProgramsLow
<1>1. Inv => ProgramsLow
  BY DEF Inv, ProgramsLow
<1> QED
  BY <1>1, RebaseInvariant, PTL

\* Signers and writable accounts never move: the header still fits.
THEOREM RebaseKeepsBands == Spec => []BandsKept
<1>1. ASSUME Inv, NEW i \in Idx, i < ro PROVE keys[i] = i
  BY <1>1, PairedIndex DEF Inv, KeysFollow
<1>2. Inv => BandsKept
  BY <1>1 DEF BandsKept
<1> QED
  BY <1>2, RebaseInvariant, PTL

\* The function throws only when no slot is left, and then changed nothing.
THEOREM RebaseThrowsOnlyIfFull == Spec => []ThrowsOnlyIfFull
<1>1. ASSUME Inv, pc = "thrown",
             NEW s \in Idx, ro <= s, s < MaxIndex, s \notin programs
      PROVE  \E p \in programs \ todo : p >= MaxIndex /\ perm[p] = s
  <2>1. perm[s] # s
    <3>1. CASE s < next
      BY <1>1, <3>1 DEF Inv, Searched
    <3>2. CASE ~(s < next)
      <4>1. next <= s
        BY <1>1, <3>2 DEF Inv, TypeOK, Idx
      <4> QED
        BY <1>1, <4>1 DEF Inv, FreeSlots
    <3> QED
      BY <3>1, <3>2
  <2>2. /\ perm[perm[s]] = s
        /\ MovedInto(s, perm[s]) \/ MovedInto(perm[s], s)
    BY <1>1, <2>1 DEF Inv, Paired
  <2>3. MovedInto(perm[s], s)
    BY <1>1, <2>2 DEF MovedInto
  <2> QED
    BY <2>2, <2>3 DEF MovedInto
<1>2. ASSUME Inv, pc = "thrown"
      PROVE  keys = [i \in Idx |-> i] /\ prog = prog0 /\ refs = refs0 /\ todo # {}
  <2>1. swapped = {} /\ todo # {} /\ prog = prog0 /\ refs = refs0
    BY <1>2 DEF Inv, KeysFollow
  <2>2. \A i \in Idx : keys[i] = i
    BY <1>2, <2>1 DEF Inv, KeysFollow
  <2>3. keys = [i \in Idx |-> i]
    BY <1>2, <2>2 DEF Inv, TypeOK
  <2> QED
    BY <2>1, <2>3
<1>3. Inv => ThrowsOnlyIfFull
  BY <1>1, <1>2 DEF ThrowsOnlyIfFull
<1> QED
  BY <1>3, RebaseInvariant, PTL

-----------------------------------------------------------------------------
(* The pure functions.                                                     *)

\* What is asked about is one of the inputs.
LEMMA Inputs ==
    ASSUME NoQuestion \/ Question
    PROVE  /\ Asked("product") => q.in \in Arithmetic(Exponents)
           /\ Asked("quotient") => q.in \in Arithmetic(DivExponents)
           /\ Asked("amount") => q.in \in Amounts
           /\ Asked("limit") => q.in \in Limits
           /\ Asked("length") => q.in \in Lengths
           /\ Asked("market") => q.in \in [t : Symbols, c : Symbols]
<1>1. ASSUME NEW topic, NEW inputs, q \in About(topic, inputs)
      PROVE  q.topic = topic /\ q.in \in inputs
  BY <1>1 DEF About
<1>2. NoQuestion => q.topic = "none"
  BY DEF NoQuestion
<1>3. q.topic = "product" => q \in About("product", Arithmetic(Exponents))
  BY <1>1, <1>2 DEF Question
<1>4. q.topic = "quotient" => q \in About("quotient", Arithmetic(DivExponents))
  BY <1>1, <1>2 DEF Question
<1>5. q.topic = "amount" => q \in About("amount", Amounts)
  BY <1>1, <1>2 DEF Question
<1>6. q.topic = "limit" => q \in About("limit", Limits)
  BY <1>1, <1>2 DEF Question
<1>7. q.topic = "length" => q \in About("length", Lengths)
  BY <1>1, <1>2 DEF Question
<1>8. q.topic = "market" => q \in About("market", [t : Symbols, c : Symbols])
  BY <1>1, <1>2 DEF Question
<1> QED BY <1>1, <1>3, <1>4, <1>5, <1>6, <1>7, <1>8 DEF Asked

LEMMA Numbers ==
    ASSUME NEW E \in {Exponents, DivExponents}, NEW x \in Arithmetic(E)
    PROVE  /\ x.c1 \in Nat /\ x.c2 \in Nat
           /\ x.e1 \in E /\ x.e1 \in Int /\ x.e2 \in Int /\ x.t \in Int
BY InputAssumption DEF Arithmetic

LEMMA ProductsExact == (NoQuestion \/ Question) => ProductsAreExact
<1> SUFFICES ASSUME NoQuestion \/ Question, Asked("product") PROVE ProductsAreExact
  BY DEF ProductsAreExact
<1>1. PICK x \in Arithmetic(Exponents) : x = q.in
  BY Inputs
<1>2. x.c1 \in Nat /\ x.c2 \in Nat /\ x.e1 \in Int /\ x.e2 \in Int /\ x.t \in Int
  BY Numbers
<1>3. /\ IsFloor(DecimalMul(x.c1, x.e1, x.c2, x.e2, x.t), Product(x.c1, x.e1, x.c2, x.e2, x.t))
      /\ IsCeil(DecimalCeilMul(x.c1, x.e1, x.c2, x.e2, x.t), Product(x.c1, x.e1, x.c2, x.e2, x.t))
  BY <1>2, MulIsExact
<1> QED BY <1>1, <1>3 DEF ProductsAreExact

LEMMA QuotientsExact ==
    ASSUME NoQuestion \/ Question, \A e \in DivExponents : e <= 0
    PROVE  QuotientsAreExact
<1> SUFFICES ASSUME Asked("quotient"), q.in.c2 # 0 PROVE QuotientsAreExact
  BY DEF QuotientsAreExact
<1>1. PICK x \in Arithmetic(DivExponents) : x = q.in
  BY Inputs
<1>2. x.c1 \in Nat /\ x.c2 \in Nat \ {0} /\ x.e1 \in Int /\ x.e2 \in Int /\ x.t \in Int /\ x.e1 <= 0
  BY <1>1, Numbers
<1>3. IsFloor(DecimalDiv(x.c1, x.e1, x.c2, x.e2, x.t), Quotient(x.c1, x.e1, x.c2, x.e2, x.t))
  BY <1>2, DivIsExact
<1> QED BY <1>1, <1>3 DEF QuotientsAreExact

LEMMA CmpExact == (NoQuestion \/ Question) => CmpIsExact
<1> SUFFICES ASSUME NoQuestion \/ Question, Asked("product") PROVE CmpIsExact
  BY DEF CmpIsExact
<1>1. PICK x \in Arithmetic(Exponents) : x = q.in
  BY Inputs
<1>2. PICK c1 \in Nat, c2 \in Nat, e1 \in Int, e2 \in Int :
          c1 = x.c1 /\ c2 = x.c2 /\ e1 = x.e1 /\ e2 = x.e2
  BY Numbers
<1>3. Pos(e1 - e2) \in Nat /\ Pos(e2 - e1) \in Nat
  BY DEF Pos
<1>4. PICK u \in Nat, v \in Nat : u = Pow10[Pos(e1 - e2)] /\ v = Pow10[Pos(e2 - e1)]
  BY <1>3, Pow10Pos
<1>5. Cmp(c1, e1, c2, e2) =
          IF e1 = e2 \/ e1 < 0 \/ e2 < 0 THEN {c1 * u - c2 * v} ELSE {}
  <2>0. Pow10[0] = 1
    BY Pow10Def
  <2>1. CASE e1 < e2
    <3>1. Pos(e1 - e2) = 0 /\ Pos(e2 - e1) = e2 - e1
      BY <2>1 DEF Pos
    <3>2. u = 1 /\ v = Pow10[e2 - e1]
      BY <1>4, <2>0, <3>1
    <3>3. CASE e1 >= 0
      <4>1. ScaleTo(c2, e2, e1) = {}
        BY <3>3 DEF ScaleTo
      <4>2. Cmp(c1, e1, c2, e2) = {}
        BY <2>1, <4>1 DEF Cmp
      <4> QED BY <2>1, <3>3, <4>2
    <3>4. CASE e1 < 0
      <4>1. ScaleTo(c2, e2, e1) = {c2 * v}
        BY <2>1, <3>2, <3>4 DEF ScaleTo
      <4>2. Cmp(c1, e1, c2, e2) = {c1 - c2 * v}
        BY <2>1, <4>1 DEF Cmp
      <4> QED BY <3>2, <3>4, <4>2
    <3> QED BY <3>3, <3>4
  <2>2. CASE e2 < e1
    <3>1. Pos(e2 - e1) = 0 /\ Pos(e1 - e2) = e1 - e2
      BY <2>2 DEF Pos
    <3>2. v = 1 /\ u = Pow10[e1 - e2]
      BY <1>4, <2>0, <3>1
    <3>3. CASE e2 >= 0
      <4>1. ScaleTo(c1, e1, e2) = {}
        BY <3>3 DEF ScaleTo
      <4>2. Cmp(c1, e1, c2, e2) = {}
        BY <2>2, <4>1 DEF Cmp
      <4> QED BY <2>2, <3>3, <4>2
    <3>4. CASE e2 < 0
      <4>1. ScaleTo(c1, e1, e2) = {c1 * Pow10[e1 - e2]}
        BY <2>2, <3>4 DEF ScaleTo
      <4>2. Cmp(c1, e1, c2, e2) = {c1 * u - c2}
        BY <2>2, <3>2, <4>1 DEF Cmp
      <4> QED BY <3>2, <3>4, <4>2
    <3> QED BY <3>3, <3>4
  <2>3. CASE e1 = e2
    <3>1. u = 1 /\ v = 1
      BY <1>4, <2>0, <2>3 DEF Pos
    <3> QED BY <2>3, <3>1 DEF Cmp
  <2> QED BY <2>1, <2>2, <2>3
<1>6. PICK l \in Nat, r \in Nat : l = c1 * u /\ r = c2 * v
  OBVIOUS
<1>7. (l - r > 0 <=> l > r) /\ (l - r < 0 <=> l < r)
  OBVIOUS
<1> QED BY <1>1, <1>2, <1>4, <1>5, <1>6, <1>7 DEF CmpIsExact

-----------------------------------------------------------------------------
(* Prices.                                                                 *)

\* A price with its rate is a natural number, and none if the price is zero.
LEMMA EffectiveIsNat ==
    ASSUME NEW price \in Nat, NEW e \in Int, NEW rate \in Nat
    PROVE  Effective(price, e, rate) \in Nat
<1>1. RateDecimals \in Nat /\ -RateDecimals \in Int
  BY ScaleAssumption
<1> QED BY <1>1, MulIsExact DEF Effective

\* Tokens for USD and USD for tokens, as inequalities between the same two sides.
LEMMA ToTokens ==
    ASSUME NEW usd \in Nat, NEW dec \in Nat, NEW price \in Nat, NEW e \in Int, NEW rate \in Nat,
           NEW p \in Int, p = dec - e - UsdDecimals, Effective(price, e, rate) > 0
    PROVE  /\ TokenAmount(usd, dec, price, e, rate) \in Nat
           /\ TokenAmount(usd, dec, price, e, rate) * (Effective(price, e, rate) * Pow10[Pos(-p)])
                  <= usd * Pow10[Pos(p)]
<1>1. PICK eff \in Nat \ {0} : eff = Effective(price, e, rate)
  BY EffectiveIsNat
<1>2. PICK u \in Nat, v \in Nat : u = Pow10[Pos(p)] /\ v = Pow10[Pos(-p)]
  BY Pow10Pos DEF Pos
<1>3. CASE usd = 0 \/ price = 0
  <2>1. TokenAmount(usd, dec, price, e, rate) = 0
    BY <1>3 DEF TokenAmount
  <2>2. 0 * (eff * v) = 0 /\ usd * u \in Nat
    OBVIOUS
  <2> QED BY <1>1, <1>2, <2>1, <2>2
<1>4. CASE ~(usd = 0 \/ price = 0)
  <2>1. PICK m \in Int, k \in Int : m = -UsdDecimals /\ k = -dec /\ m <= 0
    BY ScaleAssumption
  <2>2. m - e - k = p
    BY <2>1, ScaleAssumption
  <2>3. PICK r \in Nat : r = DecimalDiv(usd, m, eff, e, k) /\ IsFloor(r, Quotient(usd, m, eff, e, k))
    BY <2>1, DivIsExact
  <2>4. TokenAmount(usd, dec, price, e, rate) = r
    BY <1>1, <1>4, <2>1, <2>3 DEF TokenAmount
  <2>5. Quotient(usd, m, eff, e, k) = <<usd * u, eff * v>>
    BY <1>2, <2>2 DEF Quotient
  <2>6. r * (eff * v) <= usd * u
    BY <2>3, <2>5 DEF IsFloor
  <2> QED BY <1>1, <1>2, <2>4, <2>6
<1> QED BY <1>3, <1>4

LEMMA ToUsd ==
    ASSUME NEW tokens \in Nat, NEW dec \in Nat, NEW price \in Nat, NEW e \in Int, NEW rate \in Nat,
           NEW p \in Int, p = dec - e - UsdDecimals
    PROVE  /\ AssetAmountUsd(tokens, dec, price, e, rate) \in Nat
           /\ AssetAmountUsd(tokens, dec, price, e, rate) * Pow10[Pos(p)]
                  <= tokens * (Effective(price, e, rate) * Pow10[Pos(-p)])
<1>1. PICK eff \in Nat : eff = Effective(price, e, rate)
  BY EffectiveIsNat
<1>2. PICK u \in Nat, v \in Nat : u = Pow10[Pos(p)] /\ v = Pow10[Pos(-p)]
  BY Pow10Pos DEF Pos
<1>3. PICK m \in Int, k \in Int : m = -UsdDecimals /\ k = -dec
  BY ScaleAssumption
<1>4. k + e - m = -p /\ -(-p) = p
  BY <1>3, ScaleAssumption
<1>5. PICK s \in Nat : s = DecimalMul(tokens, k, eff, e, m) /\ IsFloor(s, Product(tokens, k, eff, e, m))
  BY MulIsExact
<1>6. Product(tokens, k, eff, e, m) = <<tokens * eff * v, u>>
  BY <1>2, <1>4 DEF Product
<1>7. s * u <= tokens * eff * v
  BY <1>5, <1>6 DEF IsFloor
<1>8. tokens * eff * v = tokens * (eff * v)
  OBVIOUS
<1>9. AssetAmountUsd(tokens, dec, price, e, rate) = s
  BY <1>1, <1>3, <1>5 DEF AssetAmountUsd
<1> QED BY <1>1, <1>2, <1>7, <1>8, <1>9

LEMMA RoundTrips == (NoQuestion \/ Question) => RoundTripsGainNothing
<1> SUFFICES ASSUME NoQuestion \/ Question, Asked("amount"),
                    Effective(q.in.price, q.in.e, q.in.rate) > 0
             PROVE  RoundTripsGainNothing
  BY DEF RoundTripsGainNothing
<1>1. PICK x \in Amounts : x = q.in
  BY Inputs
<1>2. PICK a \in Nat, dec \in Nat, price \in Nat, e \in Int, rate \in Nat :
          a = x.amount /\ dec = x.decimals /\ price = x.price /\ e = x.e /\ rate = x.rate
  BY InputAssumption DEF Amounts
<1>3. PICK p \in Int : p = dec - e - UsdDecimals
  BY ScaleAssumption
<1>4. PICK f \in Nat \ {0} : f = Effective(price, e, rate)
  BY <1>1, <1>2, EffectiveIsNat
<1>5. PICK u \in Nat \ {0}, w \in Nat \ {0} :
          u = Pow10[Pos(p)] /\ w = f * Pow10[Pos(-p)]
  <2>1. PICK v \in Nat \ {0} : v = Pow10[Pos(-p)]
    BY Pow10Pos DEF Pos
  <2>2. f * v \in Nat \ {0}
    OBVIOUS
  <2>3. Pow10[Pos(p)] \in Nat \ {0}
    BY Pow10Pos DEF Pos
  <2> QED BY <2>1, <2>2, <2>3
<1>6. ASSUME NEW usd \in Nat
      PROVE  /\ TokenAmount(usd, dec, price, e, rate) \in Nat
             /\ TokenAmount(usd, dec, price, e, rate) * w <= usd * u
  <2>1. Effective(price, e, rate) > 0
    BY <1>4
  <2>2. /\ TokenAmount(usd, dec, price, e, rate) \in Nat
        /\ TokenAmount(usd, dec, price, e, rate) * (Effective(price, e, rate) * Pow10[Pos(-p)])
               <= usd * Pow10[Pos(p)]
    BY <1>3, <2>1, ToTokens
  <2> QED BY <1>4, <1>5, <2>2
<1>7. ASSUME NEW tokens \in Nat
      PROVE  /\ AssetAmountUsd(tokens, dec, price, e, rate) \in Nat
             /\ AssetAmountUsd(tokens, dec, price, e, rate) * u <= tokens * w
  BY <1>3, <1>4, <1>5, ToUsd
<1>8. \A y, z \in Nat : (y * u <= z * u => y <= z) /\ (y * w <= z * w => y <= z)
  OBVIOUS
<1>9. AssetAmountUsd(TokenAmount(a, dec, price, e, rate), dec, price, e, rate) <= a
  <2>1. PICK k \in Nat : k = TokenAmount(a, dec, price, e, rate) /\ k * w <= a * u
    BY <1>6
  <2>2. PICK s \in Nat : s = AssetAmountUsd(k, dec, price, e, rate) /\ s * u <= k * w
    BY <1>7
  <2>3. s * u <= a * u
    BY <2>1, <2>2
  <2> QED BY <1>8, <2>1, <2>2, <2>3
<1>10. TokenAmount(AssetAmountUsd(a, dec, price, e, rate), dec, price, e, rate) <= a
  <2>1. PICK s \in Nat : s = AssetAmountUsd(a, dec, price, e, rate) /\ s * u <= a * w
    BY <1>7
  <2>2. PICK k \in Nat : k = TokenAmount(s, dec, price, e, rate) /\ k * w <= s * u
    BY <1>6
  <2>3. k * w <= a * w
    BY <2>1, <2>2
  <2> QED BY <1>8, <2>1, <2>2, <2>3
<1> QED BY <1>1, <1>2, <1>9, <1>10 DEF RoundTripsGainNothing

LEMMA Slippage == (NoQuestion \/ Question) => SlippageIsKept
<1> SUFFICES ASSUME NoQuestion \/ Question, Asked("limit") PROVE SlippageIsKept
  BY DEF SlippageIsKept
<1>1. PICK x \in Limits : x = q.in
  BY Inputs
<1>2. PICK price \in Nat, bps \in Nat, e \in Int :
          price = x.price /\ bps = x.bps /\ e = x.e
  BY InputAssumption DEF Limits
<1>3. PICK one \in Nat \ {0} : one = Pow10[BpsDecimals]
  BY Pow10Pos, ScaleAssumption
<1>4. PICK spread \in Nat :
          /\ spread = Spread(price, e, bps)
          /\ price * bps <= spread * one /\ (spread - 1) * one < price * bps
  <2>1. PICK b \in Int : b = -BpsDecimals /\ b < 0 /\ -b = BpsDecimals
    BY ScaleAssumption
  <2>2. e + b - e = b /\ Pos(b) = 0 /\ Pos(-b) = BpsDecimals
    BY <2>1 DEF Pos
  <2>3. PICK c \in Nat : c = price * bps /\ c * 1 = c
    OBVIOUS
  <2>4. Product(price, e, bps, b, e) = <<c, one>>
    <3>1. Pow10[0] = 1
      BY Pow10Def
    <3>2. Product(price, e, bps, b, e) = <<price * bps * Pow10[Pos(b)], Pow10[Pos(-b)]>>
      BY <2>2 DEF Product
    <3> QED BY <1>3, <2>2, <2>3, <3>1, <3>2
  <2>5. PICK r \in Nat : r = DecimalCeilMul(price, e, bps, b, e) /\ IsCeil(r, <<c, one>>)
    <3>1. /\ DecimalCeilMul(price, e, bps, b, e) \in Nat
          /\ IsCeil(DecimalCeilMul(price, e, bps, b, e), Product(price, e, bps, b, e))
      BY MulIsExact
    <3> QED BY <2>4, <3>1
  <2>6. r = Spread(price, e, bps)
    BY <2>1, <2>5 DEF Spread
  <2> QED BY <2>3, <2>5, <2>6 DEF IsCeil
<1>5. PICK limit \in Int : limit = PriceAfterSlippage(x.entry, bps, price, e, x.side)
  BY <1>4 DEF PriceAfterSlippage, Pos
<1>6. CASE x.entry = (x.side = "long")
  <2>1. limit = price + spread
    BY <1>4, <1>5, <1>6 DEF PriceAfterSlippage
  <2>2. price * (one + bps) = price * one + price * bps
        /\ (price + spread) * one = price * one + spread * one
        /\ ((price + spread) - 1) * one = price * one + (spread - 1) * one
    OBVIOUS
  <2>3. price * (one + bps) <= limit * one
    BY <1>4, <2>1, <2>2
  <2>4. (limit - 1) * one < price * (one + bps)
    BY <1>4, <2>1, <2>2
  <2>5. IsCeil(limit, <<price * (one + bps), one>>)
    BY <2>3, <2>4 DEF IsCeil
  <2> QED BY <1>1, <1>2, <1>3, <1>5, <1>6, <2>5 DEF SlippageIsKept
<1>7. CASE x.entry # (x.side = "long")
  <2>1. limit = Pos(price - spread)
    BY <1>4, <1>5, <1>7 DEF PriceAfterSlippage
  <2>2. limit >= 0
    BY <2>1 DEF Pos
  <2>3. ASSUME bps > one
        PROVE  limit = 0
    <3>1. price * one <= price * bps
      BY <2>3
    <3>2. price * one <= spread * one
      BY <1>4, <3>1
    <3>3. price <= spread
      BY <3>2
    <3> QED BY <2>1, <3>3 DEF Pos
  <2>4. ASSUME bps <= one
        PROVE  IsFloor(limit, <<price * (one - bps), one>>)
    <3>1. price * bps <= price * one
      BY <2>4
    <3>2. (spread - 1) * one < price * one
      BY <1>4, <3>1
    <3>3. spread <= price
      BY <3>2
    <3>4. limit = price - spread
      BY <2>1, <3>3 DEF Pos
    <3>5. /\ (price - spread) * one = price * one - spread * one
          /\ price * (one - bps) = price * one - price * bps
          /\ ((price - spread) + 1) * one = price * one - (spread - 1) * one
      OBVIOUS
    <3>6. limit * one <= price * (one - bps)
      BY <1>4, <3>4, <3>5
    <3>7. price * (one - bps) < (limit + 1) * one
      BY <1>4, <3>4, <3>5
    <3> QED BY <3>6, <3>7 DEF IsFloor
  <2> QED BY <1>1, <1>2, <1>3, <1>5, <1>7, <2>2, <2>3, <2>4 DEF SlippageIsKept
<1> QED BY <1>6, <1>7

LEMMA BytesRead == (NoQuestion \/ Question) => BytesAreRead
<1> SUFFICES ASSUME NoQuestion \/ Question PROVE BytesAreRead
  OBVIOUS
<1>1. LengthsAreRead
  BY Inputs, InputAssumption, LengthRead DEF LengthsAreRead
<1>2. Cardinality({Serialize(m) : m \in Messages}) = Cardinality(Messages)
  BY InputAssumption, AsManyBytes
<1> QED BY <1>1, <1>2 DEF BytesAreRead

LEMMA MarketsMatch == (NoQuestion \/ Question) => MarketsAgree
<1> SUFFICES ASSUME NoQuestion \/ Question, Asked("market") PROVE MarketsAgree
  BY DEF MarketsAgree, PickedIsTraded
<1>1. q.in.t \in Symbols /\ q.in.c \in Symbols
  BY Inputs
<1> QED BY <1>1, RunnerPicks, SidePicks, DefaultPicks DEF MarketsAgree, PickedIsTraded

\* Questions do not change.
LEMMA QuestionStays == Asks => [](NoQuestion \/ Question)
<1>1. (NoQuestion \/ Question) /\ [FALSE]_q => (NoQuestion \/ Question)'
  BY DEF NoQuestion, Question
<1> QED BY <1>1, PTL DEF Asks

\* Products of fixed-point numbers are exact, whatever the inputs, and so is every
\* comparison that does not throw; which ones throw is part of what is proved.
THEOREM ProductsAndComparisons == Asks => [](ProductsAreExact /\ CmpIsExact)
BY ProductsExact, CmpExact, QuestionStays, PTL

\* And quotients, unless a dividend has a positive exponent: checkedDecimalDiv then
\* scales it twice.
THEOREM ArithmeticHolds ==
    ASSUME \A e \in DivExponents : e <= 0
    PROVE  Asks => []ArithmeticIsExact
<1>1. (NoQuestion \/ Question) => ArithmeticIsExact
  BY ProductsExact, QuotientsExact, CmpExact DEF ArithmeticIsExact
<1> QED BY <1>1, QuestionStays, PTL

\* Converting between USD and tokens, in any order, for any price, rate and decimals,
\* gains nothing.
THEOREM NothingGained == Asks => []RoundTripsGainNothing
BY RoundTrips, QuestionStays, PTL

\* The limit price of every order is the price moved by the slippage, rounded up for
\* a buyer and down for a seller, and never negative.
THEOREM SlippageHolds == Asks => []SlippageIsKept
BY Slippage, QuestionStays, PTL

\* The bytes of a message, or of a length, mean nothing else.
THEOREM BytesMeanOneMessage == Asks => []BytesAreRead
BY BytesRead, QuestionStays, PTL

\* In every pool that satisfies the assumptions of Markets, runners and client mean
\* the same market.
THEOREM MarketsAlwaysAgree == Asks => []MarketsAgree
BY MarketsMatch, QuestionStays, PTL
===============================================================================
