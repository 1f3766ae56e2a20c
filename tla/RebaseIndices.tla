---------------------------- MODULE RebaseIndices ----------------------------
(***************************************************************************)
(* rebaseProgramIndices of erWire.ts: the ER rejects a legacy message in   *)
(* which an instruction's program sits at index 38 or above, so the sender *)
(* swaps such programs with free slots of the readonly-non-signer band and *)
(* rewrites every index that moved.  The header is left alone, so a slip   *)
(* would silently grant or take a privilege, or call another program.      *)
(*                                                                         *)
(* A key is named by the position it had in the compiled message.          *)
(***************************************************************************)
EXTENDS Naturals

CONSTANTS Instrs,    \* the message's instructions
          Refs,      \* the (instruction, position) pairs of its account indices
          MaxIndex,  \* MAGICBLOCK_MAX_PROGRAM_ID_INDEX (38)
          MaxKeys    \* bound: length of accountKeys

ASSUME RebaseAssumption == MaxIndex \in Nat /\ MaxKeys \in Nat

VARIABLES
    (* the message *)
    n,         \* accountKeys.length
    ro,        \* roNonSignerStart
    keys,      \* keys[i]: the key at index i
    prog,      \* prog[x]: programIdIndex of instruction x
    refs,      \* refs[x]: one account index
    (* the function's locals *)
    pc,
    programs,  \* programIdxs
    todo,      \* the part of needsMove the loop has not reached
    perm,      \* the permutation; an index without an entry maps to itself
    next,      \* nextLowSlot
    swapped,   \* lower ends of the pairs whose keys are swapped
    (* history *)
    prog0, refs0   \* the indices before the call

msg == <<n, ro, keys, prog, refs>>
locals == <<programs, todo, perm, next, swapped>>
vars == <<msg, pc, locals, prog0, refs0>>

Idx == 0 .. n-1

Init ==
    /\ n \in 1..MaxKeys
    /\ ro \in 1..n             \* the fee payer is a signer
    /\ keys = [i \in Idx |-> i]
    /\ prog \in [Instrs -> Idx]
    /\ refs \in [Refs -> Idx]
    /\ prog0 = prog /\ refs0 = refs
    /\ pc = "collect"
    /\ programs = {} /\ todo = {} /\ swapped = {}
    /\ perm = [i \in Idx |-> i]
    /\ next = ro

\* Which programs sit too high? None: return.
Collect ==
    /\ pc = "collect"
    /\ programs' = {prog[x] : x \in Instrs}
    /\ todo' = {i \in programs' : i >= MaxIndex}
    /\ pc' = IF todo' = {} THEN "done" ELSE "place"
    /\ UNCHANGED <<msg, perm, next, swapped, prog0, refs0>>

\* (mutants) the search starts at the first key; the bound is inclusive; the
\* cursor is advanced before the slot is tested
FreeSlots_AnyBand == {s \in Idx : s < MaxIndex /\ s \notin programs /\ perm[s] = s}
FreeSlots_Inclusive ==
    {s \in Idx : next <= s /\ s <= MaxIndex /\ s \notin programs /\ perm[s] = s}
FreeSlots_SkipsFirst ==
    {s \in Idx : next < s /\ s < MaxIndex /\ s \notin programs /\ perm[s] = s}

\* nextLowSlot only advances past a slot that holds a program or has been given
\* to one.
FreeSlots == {s \in Idx : next <= s /\ s < MaxIndex /\ s \notin programs /\ perm[s] = s}

Least(S, x) == x \in S /\ \A y \in S : x <= y

\* The lowest program of needsMove gets the lowest free slot; throw if there is
\* none.
Place ==
    /\ pc = "place" /\ todo # {}
    /\ IF FreeSlots = {}
         THEN pc' = "thrown" /\ UNCHANGED <<todo, perm, next>>
         ELSE \E p \in todo, s \in FreeSlots :
                 /\ Least(todo, p) /\ Least(FreeSlots, s)
                 /\ perm' = [perm EXCEPT ![p] = s, ![s] = p]
                 /\ next' = s + 1
                 /\ todo' = todo \ {p}
                 /\ UNCHANGED pc
    /\ UNCHANGED <<msg, programs, swapped, prog0, refs0>>

\* for (const [from, to] of perm): swap the keys, once per pair.
Unswapped == {i \in Idx : i < perm[i] /\ i \notin swapped}

Swap ==
    /\ pc = "place" /\ todo = {}
    /\ \E i \in Unswapped :
          /\ keys' = [keys EXCEPT ![i] = keys[perm[i]], ![perm[i]] = keys[i]]
          /\ swapped' = swapped \cup {i}
    /\ UNCHANGED <<n, ro, prog, refs, pc, programs, todo, perm, next, prog0, refs0>>

\* (mutant) only the program indices are rewritten
Rewrite_ProgramsOnly ==
    /\ pc = "place" /\ todo = {} /\ Unswapped = {}
    /\ prog' = [x \in Instrs |-> perm[prog[x]]]
    /\ pc' = "done"
    /\ UNCHANGED <<n, ro, keys, refs, locals, prog0, refs0>>

\* Rewrite programIdIndex and accounts of every instruction.
Rewrite ==
    /\ pc = "place" /\ todo = {} /\ Unswapped = {}
    /\ prog' = [x \in Instrs |-> perm[prog[x]]]
    /\ refs' = [x \in Refs |-> perm[refs[x]]]
    /\ pc' = "done"
    /\ UNCHANGED <<n, ro, keys, locals, prog0, refs0>>

Next == Collect \/ Place \/ Swap \/ Rewrite

Spec == Init /\ [][Next]_vars
-----------------------------------------------------------------------------
TypeOK ==
    /\ n \in 1..MaxKeys /\ ro \in 1..n
    /\ keys \in [Idx -> Idx]
    /\ prog \in [Instrs -> Idx] /\ prog0 \in [Instrs -> Idx]
    /\ refs \in [Refs -> Idx] /\ refs0 \in [Refs -> Idx]
    /\ pc \in {"collect", "place", "done", "thrown"}
    /\ programs \subseteq Idx /\ todo \subseteq programs
    /\ perm \in [Idx -> Idx]
    /\ next \in Nat
    /\ swapped \subseteq Idx

\* The rewritten message calls the same programs with the same accounts.
SameMeaning ==
    pc = "done" =>
        /\ \A x \in Instrs : keys[prog[x]] = prog0[x]
        /\ \A x \in Refs : keys[refs[x]] = refs0[x]

\* Every program index is one the ER accepts.
ProgramsLow ==
    pc = "done" => \A x \in Instrs : prog[x] < MaxIndex

\* "Header is unchanged because swaps stay within the readonly-non-signer band":
\* at no point does a signer or a writable account change its index.
BandsKept ==
    \A i \in Idx : i < ro => keys[i] = i

\* The function only throws when every slot the ER could use for a program holds
\* one already or was given to one, and then it has not touched the message.
ThrowsOnlyIfFull ==
    pc = "thrown" =>
        /\ todo # {}
        /\ \A s \in Idx : ro <= s /\ s < MaxIndex =>
              s \in programs \/ \E p \in programs \ todo : p >= MaxIndex /\ perm[p] = s
        /\ keys = [i \in Idx |-> i] /\ prog = prog0 /\ refs = refs0
=============================================================================
