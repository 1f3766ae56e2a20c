----------------------------- MODULE BaseTxProofs -----------------------------
(***************************************************************************)
(* What the answers of sendAndConfirmTransaction are worth, for any number *)
(* of calls and accounts and any validity window, by the commitment the    *)
(* client confirms at.                                                     *)
(***************************************************************************)
EXTENDS BaseTx, TLAPS

HeightsOK ==
    /\ height["confirmed"] < height["processed"]
    /\ height["finalized"] <= height["confirmed"]

\* A transaction that was not sent is nowhere; one that was lands in time.
TxOK(c) ==
    /\ call[c].pc \in {"idle", "check", "send", "noop"} => ~tx[c].sent
    /\ ~tx[c].sent => tx[c].at = 0
    /\ tx[c].sent => tx[c].until <= height["confirmed"] + Window
    /\ tx[c].at # 0 => tx[c].at <= tx[c].until
    /\ tx[c].at <= height["processed"]

BaseInv == TypeOK /\ HeightsOK /\ \A c \in Calls : TxOK(c)

LEMMA LevelsExist ==
    /\ "processed" \in Levels /\ "confirmed" \in Levels /\ ConfirmLevel \in Levels
    /\ CheckLevel \in Levels /\ SendLevel \in Levels /\ "finalized" \in Levels
BY LevelAssumption DEF Levels, CheckLevel, SendLevel

LEMMA HeightsAreNat ==
    ASSUME TypeOK
    PROVE  /\ \A l \in Levels : height[l] \in Nat
           /\ height["processed"] \in Nat /\ height["confirmed"] \in Nat
           /\ height[ConfirmLevel] \in Nat
BY LevelsExist DEF TypeOK

-----------------------------------------------------------------------------
(* What one step does to the call that takes it. *)

OthersKept(c) ==
    /\ call' \in [Calls -> Call]
    /\ \A d \in Calls : d # c => call'[d] = call[d]

SameCall(c) ==
    /\ OthersKept(c)
    /\ call'[c].kind = call[c].kind
    /\ call'[c].acct = call[c].acct
    /\ call'[c].told = call[c].told

LEMMA BecomesMoves ==
    ASSUME TypeOK, NEW c \in Calls, NEW C \in Call, Becomes(c, C)
    PROVE  OthersKept(c) /\ call'[c] = C
BY DEF TypeOK, Becomes, OthersKept

LEMMA CreateMoves ==
    ASSUME TypeOK, NEW c \in Calls, NEW a \in Accounts, Create(c, a)
    PROVE  /\ OthersKept(c) /\ call'[c].pc = "check" /\ call'[c].kind = "create"
           /\ call'[c].acct = a /\ call'[c].told = Reported
  <1>1. PICK A \in Call : A = call[c]
    BY DEF TypeOK
  <1>2. PICK R \in SUBSET Accounts : R = Reported
    BY DEF Reported
  <1>3. PICK C \in Call : C = [A EXCEPT !.pc = "check", !.kind = "create", !.acct = a, !.told = R]
    BY <1>1 DEF Call, Pcs, Kinds
  <1>4. Becomes(c, C)
    BY <1>1, <1>2, <1>3 DEF Create
  <1>5. C.pc = "check" /\ C.kind = "create" /\ C.acct = a /\ C.told = R
    BY <1>3 DEF Call
  <1> QED BY <1>2, <1>4, <1>5, BecomesMoves

LEMMA DepositMoves ==
    ASSUME TypeOK, NEW c \in Calls, Deposit(c)
    PROVE  /\ OthersKept(c) /\ call'[c].pc = "send" /\ call'[c].kind = "deposit"
           /\ call'[c].told = Reported
  <1>1. PICK A \in Call : A = call[c]
    BY DEF TypeOK
  <1>2. PICK R \in SUBSET Accounts : R = Reported
    BY DEF Reported
  <1>3. PICK C \in Call : C = [A EXCEPT !.pc = "send", !.kind = "deposit", !.told = R]
    BY <1>1 DEF Call, Pcs, Kinds
  <1>4. Becomes(c, C)
    BY <1>1, <1>2, <1>3 DEF Deposit
  <1>5. C.pc = "send" /\ C.kind = "deposit" /\ C.told = R
    BY <1>3 DEF Call
  <1> QED BY <1>2, <1>4, <1>5, BecomesMoves

LEMMA AnswerMoves ==
    ASSUME TypeOK, NEW c \in Calls, NEW pc \in Pcs, NEW lv \in Nat,
           Becomes(c, [call[c] EXCEPT !.pc = pc, !.lv = lv])
    PROVE  SameCall(c) /\ call'[c].pc = pc /\ call'[c].lv = lv
  <1>1. PICK A \in Call : A = call[c]
    BY DEF TypeOK
  <1>2. [A EXCEPT !.pc = pc, !.lv = lv] \in Call
    BY <1>1 DEF Call
  <1>3. OthersKept(c) /\ call'[c] = [A EXCEPT !.pc = pc, !.lv = lv]
    BY <1>1, <1>2, BecomesMoves
  <1>4. /\ call'[c].pc = pc /\ call'[c].lv = lv /\ call'[c].kind = A.kind
        /\ call'[c].acct = A.acct /\ call'[c].told = A.told
    BY <1>1, <1>3 DEF Call
  <1> QED BY <1>1, <1>3, <1>4 DEF SameCall

LEMMA GotoMoves ==
    ASSUME TypeOK, NEW c \in Calls, NEW pc \in Pcs, Goto(c, pc)
    PROVE  SameCall(c) /\ call'[c].pc = pc /\ call'[c].lv = call[c].lv
  <1>1. PICK A \in Call : A = call[c]
    BY DEF TypeOK
  <1>2. [A EXCEPT !.pc = pc] \in Call
    BY <1>1 DEF Call
  <1>3. OthersKept(c) /\ call'[c] = [A EXCEPT !.pc = pc]
    BY <1>1, <1>2, BecomesMoves DEF Goto
  <1>4. /\ call'[c].pc = pc /\ call'[c].lv = A.lv /\ call'[c].kind = A.kind
        /\ call'[c].acct = A.acct /\ call'[c].told = A.told
    BY <1>1, <1>3 DEF Call
  <1> QED BY <1>1, <1>3, <1>4 DEF SameCall

LEMMA SentMoves ==
    ASSUME TypeOK, NEW c \in Calls, Sent(c)
    PROVE  /\ tx' \in [Calls -> Tx] /\ \A d \in Calls : d # c => tx'[d] = tx[d]
           /\ tx'[c].sent /\ tx'[c].until = height["confirmed"] + Window
           /\ tx'[c].at = tx[c].at /\ tx'[c].ok = tx[c].ok
  <1>1. PICK T \in Tx : T = tx[c]
    BY DEF TypeOK
  <1>2. height["confirmed"] + Window \in Nat
    BY HeightsAreNat, WindowAssumption
  <1>3. [T EXCEPT !.sent = TRUE, !.until = height["confirmed"] + Window] \in Tx
    BY <1>1, <1>2 DEF Tx
  <1>4. tx' = [tx EXCEPT ![c] = [T EXCEPT !.sent = TRUE, !.until = height["confirmed"] + Window]]
    BY <1>1 DEF Sent, SendLevel
  <1>5. tx'[c] = [T EXCEPT !.sent = TRUE, !.until = height["confirmed"] + Window]
    BY <1>1, <1>4 DEF TypeOK
  <1>6. tx' \in [Calls -> Tx] /\ \A d \in Calls : d # c => tx'[d] = tx[d]
    BY <1>3, <1>4 DEF TypeOK
  <1>7. /\ tx'[c].sent /\ tx'[c].until = height["confirmed"] + Window
        /\ tx'[c].at = T.at /\ tx'[c].ok = T.ok
    BY <1>1, <1>5 DEF Tx
  <1> QED BY <1>1, <1>6, <1>7

LEMMA LandMoves ==
    ASSUME TypeOK, NEW c \in Calls, Land(c)
    PROVE  /\ tx' \in [Calls -> Tx] /\ \A d \in Calls : d # c => tx'[d] = tx[d]
           /\ tx'[c].sent = tx[c].sent /\ tx'[c].until = tx[c].until
           /\ tx'[c].at = height["processed"] /\ tx'[c].ok = Works(c)
  <1>1. PICK T \in Tx : T = tx[c]
    BY DEF TypeOK
  <1>2. PICK w \in BOOLEAN : w = Works(c)
    BY DEF Works, ExistsAt
  <1>3. height["processed"] \in Nat
    BY HeightsAreNat
  <1>4. tx' = [tx EXCEPT ![c] = [T EXCEPT !.at = height["processed"], !.ok = w]]
    BY <1>1, <1>2 DEF Land
  <1>5. [T EXCEPT !.at = height["processed"], !.ok = w] \in Tx
    BY <1>1, <1>3 DEF Tx
  <1>6. tx'[c] = [T EXCEPT !.at = height["processed"], !.ok = w]
    BY <1>1, <1>4 DEF TypeOK
  <1>7. tx' \in [Calls -> Tx] /\ \A d \in Calls : d # c => tx'[d] = tx[d]
    BY <1>4, <1>5 DEF TypeOK
  <1>8. /\ tx'[c].sent = T.sent /\ tx'[c].until = T.until
        /\ tx'[c].at = height["processed"] /\ tx'[c].ok = w
    BY <1>1, <1>6 DEF Tx
  <1> QED BY <1>1, <1>2, <1>7, <1>8

LEMMA ForkMoves ==
    ASSUME TypeOK, NEW h \in Nat, Fork(h)
    PROVE  /\ tx' \in [Calls -> Tx]
           /\ \A c \in Calls :
                 /\ tx'[c].sent = tx[c].sent /\ tx'[c].until = tx[c].until
                 /\ tx[c].at >= h => tx'[c].at = 0
                 /\ ~(tx[c].at >= h) => tx'[c] = tx[c]
  <1>1. ASSUME NEW c \in Calls
        PROVE  /\ tx'[c] \in Tx /\ tx'[c].sent = tx[c].sent /\ tx'[c].until = tx[c].until
               /\ tx[c].at >= h => tx'[c].at = 0
               /\ ~(tx[c].at >= h) => tx'[c] = tx[c]
    <2>1. PICK T \in Tx : T = tx[c]
      BY DEF TypeOK
    <2>2. tx'[c] = IF T.at >= h THEN [T EXCEPT !.at = 0, !.ok = FALSE] ELSE T
      BY <2>1 DEF Fork
    <2>3. [T EXCEPT !.at = 0, !.ok = FALSE] \in Tx
      BY <2>1 DEF Tx
    <2> QED BY <2>1, <2>2, <2>3 DEF Tx
  <1>2. tx' = [c \in Calls |-> tx'[c]]
    BY DEF Fork
  <1> QED BY <1>1, <1>2

LEMMA HeightsMove ==
    ASSUME TypeOK, HeightsOK, NewBlock \/ Vote \/ Root \/ (\E h \in Nat : Fork(h))
    PROVE  /\ height' \in [Levels -> Nat] /\ HeightsOK'
           /\ height'["confirmed"] >= height["confirmed"]
           /\ UNCHANGED call
  <1>1. /\ height["processed"] \in Nat /\ height["confirmed"] \in Nat
        /\ height["finalized"] \in Nat
        /\ "processed" \in Levels /\ "confirmed" \in Levels /\ "finalized" \in Levels
    BY HeightsAreNat, LevelsExist
  <1>2. CASE NewBlock
    BY <1>1, <1>2 DEF NewBlock, TypeOK, HeightsOK
  <1>3. CASE Vote
    BY <1>1, <1>3 DEF Vote, TypeOK, HeightsOK
  <1>4. CASE Root
    BY <1>1, <1>4 DEF Root, TypeOK, HeightsOK
  <1>5. ASSUME NEW h \in Nat, Fork(h)
        PROVE  /\ height' \in [Levels -> Nat] /\ HeightsOK'
               /\ height'["confirmed"] >= height["confirmed"]
               /\ UNCHANGED call
    <2>1. /\ height["confirmed"] < h /\ height' = [height EXCEPT !["processed"] = h]
          /\ UNCHANGED call
      BY <1>5 DEF Fork
    <2> QED BY <1>1, <2>1 DEF TypeOK, HeightsOK
  <1> QED BY <1>2, <1>3, <1>4, <1>5

-----------------------------------------------------------------------------
(* The base invariant. *)

LEMMA CallKeepsBaseInv ==
    ASSUME BaseInv, NEW c \in Calls, OthersKept(c), UNCHANGED height,
           tx' \in [Calls -> Tx], \A d \in Calls : d # c => tx'[d] = tx[d],
           call'[c].pc \in {"blockhash", "confirm"} => tx'[c].sent,
           TxOK(c)'
    PROVE  BaseInv'
  <1>1. TypeOK'
    BY DEF TypeOK, OthersKept, BaseInv
  <1>2. HeightsOK'
    BY DEF HeightsOK, BaseInv
  <1>3. \A d \in Calls : TxOK(d)'
    BY DEF TxOK, OthersKept, BaseInv
  <1> QED BY <1>1, <1>2, <1>3 DEF BaseInv

\* Calls that only change what they know.
LEMMA QuietKeepsBaseInv ==
    ASSUME BaseInv, NEW c \in Calls, OthersKept(c), UNCHANGED <<height, tx>>,
           call'[c].pc \in {"blockhash", "confirm"} => tx[c].sent,
           call'[c].pc \in {"check", "send", "noop"} => call[c].pc \in {"idle", "check", "send"},
           call'[c].pc # "idle"
    PROVE  BaseInv'
  <1>1. TxOK(c) /\ tx \in [Calls -> Tx]
    BY DEF BaseInv, TypeOK
  <1>2. TxOK(c)'
    BY <1>1 DEF TxOK
  <1> QED BY <1>1, <1>2, CallKeepsBaseInv

LEMMA ClientKeepsBaseInv ==
    ASSUME BaseInv, NEW c \in Calls, ClientStep(c)
    PROVE  BaseInv'
  <1>1. TypeOK /\ HeightsOK /\ TxOK(c)
    BY DEF BaseInv
  <1>2. ASSUME NEW a \in Accounts, Create(c, a) PROVE BaseInv'
    <2>1. OthersKept(c) /\ call'[c].pc = "check"
      BY <1>1, <1>2, CreateMoves
    <2> QED BY <1>2, <2>1, QuietKeepsBaseInv DEF Create
  <1>3. CASE Deposit(c)
    <2>1. OthersKept(c) /\ call'[c].pc = "send"
      BY <1>1, <1>3, DepositMoves
    <2> QED BY <1>3, <2>1, QuietKeepsBaseInv DEF Deposit
  <1>4. CASE Check(c)
    <2>1. PICK pc \in {"noop", "send"} : Goto(c, pc)
      BY <1>4 DEF Check
    <2>2. OthersKept(c) /\ call'[c].pc = pc
      BY <1>1, <2>1, GotoMoves DEF Pcs, Answers, SameCall
    <2> QED BY <1>4, <2>1, <2>2, QuietKeepsBaseInv DEF Check
  <1>5. CASE CheckFails(c) \/ FetchThrows(c)
    <2>1. OthersKept(c) /\ call'[c].pc = "unknown"
      BY <1>1, <1>5, GotoMoves DEF Pcs, Answers, SameCall, CheckFails, FetchThrows
    <2> QED BY <1>5, <2>1, QuietKeepsBaseInv DEF CheckFails, FetchThrows
  <1>6. CASE Send(c) \/ SendThrows(c)
    <2>1. /\ OthersKept(c) /\ call'[c].pc \in {"blockhash", "unknown"}
          /\ call'[c].pc = "blockhash" => Sent(c)
      BY <1>1, <1>6, GotoMoves DEF Pcs, Answers, SameCall, Send, SendThrows
    <2>2. call[c].pc = "send" /\ UNCHANGED height /\ ~tx[c].sent /\ tx[c].at = 0
      BY <1>1, <1>6 DEF Send, SendThrows, TxOK
    <2>3. CASE UNCHANGED tx
      <3>1. call'[c].pc = "blockhash" => FALSE
        BY <1>1, <2>1, <2>2, <2>3, SentMoves
      <3> QED BY <2>1, <2>2, <2>3, <3>1, QuietKeepsBaseInv
    <2>4. CASE Sent(c)
      <3>1. /\ tx' \in [Calls -> Tx] /\ \A d \in Calls : d # c => tx'[d] = tx[d]
            /\ tx'[c].sent /\ tx'[c].until = height["confirmed"] + Window
            /\ tx'[c].at = 0
        BY <1>1, <2>2, <2>4, SentMoves
      <3>2. height["confirmed"] \in Nat /\ height["processed"] \in Nat
        BY <1>1, HeightsAreNat
      <3>3. TxOK(c)'
        BY <2>1, <2>2, <3>1, <3>2, WindowAssumption DEF TxOK
      <3> QED BY <2>1, <2>2, <3>1, <3>3, CallKeepsBaseInv
    <2> QED BY <1>6, <2>3, <2>4 DEF Send, SendThrows
  <1>7. CASE FetchBlockhash(c)
    <2>1. height[ConfirmLevel] + Window \in Nat
      BY <1>1, HeightsAreNat, WindowAssumption
    <2>2. OthersKept(c) /\ call'[c].pc = "confirm"
      BY <1>1, <1>7, <2>1, AnswerMoves DEF Pcs, SameCall, FetchBlockhash
    <2> QED BY <1>7, <1>1, <2>2, QuietKeepsBaseInv DEF FetchBlockhash, TypeOK
  <1>8. CASE Confirm(c) \/ Expire(c)
    <2>1. PICK pc \in {"ok", "failed", "expired"} : Answer(c, pc)
      BY <1>8 DEF Confirm, Expire
    <2>2. OthersKept(c) /\ call'[c].pc = pc
      BY <1>1, <2>1, AnswerMoves DEF Pcs, Answers, SameCall, Answer
    <2> QED BY <1>8, <2>2, QuietKeepsBaseInv DEF Confirm, Expire
  <1> QED BY <1>2, <1>3, <1>4, <1>5, <1>6, <1>7, <1>8 DEF ClientStep

LEMMA ChainKeepsBaseInv ==
    ASSUME BaseInv, ChainStep
    PROVE  BaseInv'
  <1>1. TypeOK /\ HeightsOK /\ \A c \in Calls : TxOK(c)
    BY DEF BaseInv
  <1>2. height["processed"] \in Nat /\ height["confirmed"] \in Nat
    BY <1>1, HeightsAreNat
  <1>3. ASSUME NEW c \in Calls, Land(c) PROVE BaseInv'
    <2>1. /\ tx' \in [Calls -> Tx] /\ \A d \in Calls : d # c => tx'[d] = tx[d]
          /\ tx'[c].sent = tx[c].sent /\ tx'[c].until = tx[c].until
          /\ tx'[c].at = height["processed"] /\ UNCHANGED <<height, call>>
          /\ tx[c].sent /\ height["processed"] <= tx[c].until
      BY <1>1, <1>3, LandMoves DEF Land
    <2>2. OthersKept(c)
      BY <1>1, <2>1 DEF OthersKept, TypeOK
    <2>3. TxOK(c)'
      BY <1>1, <1>2, <2>1 DEF TxOK
    <2> QED BY <2>1, <2>2, <2>3, CallKeepsBaseInv
  <1>4. CASE NewBlock \/ Vote \/ Root
    <2>1. /\ height' \in [Levels -> Nat] /\ HeightsOK' /\ UNCHANGED <<tx, call>>
          /\ height'["confirmed"] >= height["confirmed"]
          /\ height'["processed"] >= height["processed"]
      <3>1. height'["processed"] >= height["processed"]
        BY <1>1, <1>2, <1>4, LevelsExist DEF NewBlock, Vote, Root, TypeOK
      <3> QED BY <1>1, <1>4, <3>1, HeightsMove DEF NewBlock, Vote, Root
    <2>2. height'["processed"] \in Nat /\ height'["confirmed"] \in Nat
      BY <2>1, LevelsExist
    <2>3. TypeOK'
      BY <1>1, <2>1 DEF TypeOK
    <2>4. ASSUME NEW c \in Calls PROVE TxOK(c)'
      <3>1. tx[c].until \in Nat /\ tx[c].at \in Nat
        BY <1>1 DEF TypeOK, Tx
      <3> QED BY <1>1, <1>2, <2>1, <2>2, <3>1, WindowAssumption DEF TxOK
    <2> QED BY <2>1, <2>3, <2>4 DEF BaseInv
  <1>5. ASSUME NEW h \in Nat, Fork(h) PROVE BaseInv'
    <2>1. /\ tx' \in [Calls -> Tx]
          /\ \A c \in Calls :
                /\ tx'[c].sent = tx[c].sent /\ tx'[c].until = tx[c].until
                /\ tx[c].at >= h => tx'[c].at = 0
                /\ ~(tx[c].at >= h) => tx'[c] = tx[c]
      BY <1>1, <1>5, ForkMoves
    <2>2. /\ height' \in [Levels -> Nat] /\ HeightsOK' /\ UNCHANGED call
          /\ height'["confirmed"] = height["confirmed"] /\ height'["processed"] = h
      <3>1. height'["confirmed"] = height["confirmed"] /\ height'["processed"] = h
        BY <1>1, <1>5, LevelsExist DEF Fork, TypeOK
      <3> QED BY <1>1, <1>5, <3>1, HeightsMove
    <2>3. TypeOK'
      BY <1>1, <2>1, <2>2 DEF TypeOK
    <2>4. ASSUME NEW c \in Calls PROVE TxOK(c)'
      <3>1. tx[c].until \in Nat /\ tx[c].at \in Nat /\ tx'[c].at \in Nat
        BY <1>1, <2>1 DEF TypeOK, Tx
      <3> QED BY <1>1, <1>2, <2>1, <2>2, <3>1, WindowAssumption DEF TxOK
    <2> QED BY <2>2, <2>3, <2>4 DEF BaseInv
  <1>6. 1..height["processed"] \subseteq Nat
    BY <1>2
  <1> QED BY <1>3, <1>4, <1>5, <1>6 DEF ChainStep

\* The inductive invariant on which the others build.
THEOREM BaseInvariant == Spec => []BaseInv
  <1>1. Init => BaseInv
    <2> SUFFICES ASSUME Init PROVE BaseInv
      OBVIOUS
    <2>1. height \in [Levels -> Nat]
      BY LevelsExist DEF Init, Levels
    <2>2. HeightsOK
      BY LevelsExist DEF Init, HeightsOK
    <2>3. tx \in [Calls -> Tx] /\ call \in [Calls -> Call]
      BY DEF Init, Tx, Call, Pcs, Kinds
    <2>4. ASSUME NEW c \in Calls
          PROVE  call[c].pc = "idle" /\ ~tx[c].sent /\ tx[c].at = 0
      BY <2>4 DEF Init
    <2>5. height["processed"] \in Nat
      BY <2>1, LevelsExist
    <2>6. TypeOK
      BY <2>1, <2>3, <2>4 DEF TypeOK
    <2>7. ASSUME NEW c \in Calls PROVE TxOK(c)
      <3>1. call[c].pc = "idle" /\ ~tx[c].sent /\ tx[c].at = 0
        BY <2>4
      <3>2. 0 <= height["processed"]
        BY <2>5
      <3> QED BY <3>1, <3>2 DEF TxOK
    <2> QED BY <2>2, <2>6, <2>7 DEF BaseInv
  <1>2. BaseInv /\ [Next]_txVars => BaseInv'
    <2> SUFFICES ASSUME BaseInv, [Next]_txVars PROVE BaseInv'
      OBVIOUS
    <2>1. CASE UNCHANGED txVars
      BY <2>1 DEF txVars, BaseInv, TypeOK, HeightsOK, TxOK
    <2> QED BY <2>1, ClientKeepsBaseInv, ChainKeepsBaseInv DEF Next
  <1> QED BY <1>1, <1>2, PTL DEF Spec

\* Every variable keeps its type, and only sent transactions are waited for.
THEOREM BaseTyping == Spec => []TypeOK
  <1>1. BaseInv => TypeOK
    BY DEF BaseInv
  <1> QED BY <1>1, BaseInvariant, PTL

-----------------------------------------------------------------------------
(* Expired means dead.  The wait measures with a blockhash fetched after   *)
(* the transaction's own; it is the later of the two unless the client     *)
(* confirms at "finalized".                                                *)

Trusted == ConfirmLevel = "confirmed" \/ (ConfirmLevel = "processed" /\ ~Forks)

WaitOK(c) ==
    /\ call[c].pc = "confirm" => tx[c].until <= call[c].lv
    /\ call[c].pc = "expired" => tx[c].at = 0 /\ tx[c].until < height[ConfirmLevel]

WaitsOK == \A c \in Calls : WaitOK(c)
ExpiryInv == BaseInv /\ WaitsOK

LEMMA LevelGrows ==
    ASSUME BaseInv, [Next]_txVars, Trusted
    PROVE  /\ height[ConfirmLevel] \in Nat /\ height'[ConfirmLevel] \in Nat
           /\ height'[ConfirmLevel] >= height[ConfirmLevel]
           /\ height["confirmed"] <= height[ConfirmLevel]
           /\ height[ConfirmLevel] <= height["processed"]
  <1>1. TypeOK /\ HeightsOK
    BY DEF BaseInv
  <1>2. /\ height["processed"] \in Nat /\ height["confirmed"] \in Nat
        /\ "processed" \in Levels /\ "confirmed" \in Levels /\ ConfirmLevel \in Levels
    BY <1>1, HeightsAreNat, LevelsExist
  <1>3. /\ height[ConfirmLevel] \in Nat
        /\ height["confirmed"] <= height[ConfirmLevel]
        /\ height[ConfirmLevel] <= height["processed"]
    BY <1>1, <1>2 DEF Trusted, HeightsOK
  <1>4. height'[ConfirmLevel] \in Nat /\ height'[ConfirmLevel] >= height[ConfirmLevel]
    <2>1. CASE UNCHANGED height
      BY <1>3, <2>1
    <2>2. CASE NewBlock \/ Vote \/ Root
      BY <1>1, <1>2, <1>3, <2>2 DEF NewBlock, Vote, Root, TypeOK
    <2>3. ASSUME NEW h \in 1..height["processed"], Fork(h)
          PROVE  height'[ConfirmLevel] = height[ConfirmLevel]
      <3>1. Forks /\ height' = [height EXCEPT !["processed"] = h]
        BY <2>3 DEF Fork
      <3> QED BY <1>1, <1>2, <3>1 DEF Trusted, TypeOK
    <2>4. ASSUME NEW c \in Calls, ClientStep(c) PROVE UNCHANGED height
      BY <2>4 DEF ClientStep, Create, Deposit, Check, CheckFails, Send, SendThrows,
                  FetchBlockhash, FetchThrows, Confirm, Expire
    <2>5. ASSUME NEW c \in Calls, Land(c) PROVE UNCHANGED height
      BY <2>5 DEF Land
    <2> QED BY <1>3, <2>1, <2>2, <2>3, <2>4, <2>5 DEF Next, ChainStep, txVars
  <1> QED BY <1>3, <1>4

\* A call that is not waiting afterwards, and did not just expire, has
\* nothing to show.
LEMMA ClientKeepsWaitOK ==
    ASSUME ExpiryInv, Trusted, NEW c \in Calls, ClientStep(c), NEW d \in Calls
    PROVE  WaitOK(d)'
  <1>1. BaseInv /\ TypeOK /\ TxOK(d) /\ TxOK(c) /\ WaitOK(d) /\ HeightsOK
    BY DEF ExpiryInv, WaitsOK, BaseInv
  <1>2. /\ height[ConfirmLevel] \in Nat /\ height["confirmed"] <= height[ConfirmLevel]
        /\ height["confirmed"] \in Nat
    BY <1>1, LevelGrows, HeightsAreNat DEF Next
  <1>3. /\ tx[c].until \in Nat /\ tx[c].at \in Nat /\ call[c].lv \in Nat
    BY <1>1 DEF TypeOK, Tx, Call
  <1>4. ASSUME NEW a \in Accounts, Create(c, a) PROVE WaitOK(d)'
    <2>1. OthersKept(c) /\ call'[c].pc = "check" /\ UNCHANGED <<height, tx>>
      BY <1>1, <1>4, CreateMoves DEF Create
    <2> QED BY <1>1, <2>1 DEF OthersKept, WaitOK
  <1>5. CASE Deposit(c)
    <2>1. OthersKept(c) /\ call'[c].pc = "send" /\ UNCHANGED <<height, tx>>
      BY <1>1, <1>5, DepositMoves DEF Deposit
    <2> QED BY <1>1, <2>1 DEF OthersKept, WaitOK
  <1>6. CASE Check(c) \/ CheckFails(c) \/ FetchThrows(c)
    <2>1. PICK pc \in {"noop", "send", "unknown"} : Goto(c, pc)
      BY <1>6 DEF Check, CheckFails, FetchThrows
    <2>2. OthersKept(c) /\ call'[c].pc = pc
      BY <1>1, <2>1, GotoMoves DEF Pcs, Answers, SameCall
    <2>3. UNCHANGED <<height, tx>>
      BY <1>6 DEF Check, CheckFails, FetchThrows
    <2> QED BY <1>1, <2>2, <2>3 DEF OthersKept, WaitOK
  <1>7. CASE Send(c) \/ SendThrows(c)
    <2>1. PICK pc \in {"blockhash", "unknown"} : Goto(c, pc)
      BY <1>7 DEF Send, SendThrows
    <2>2. OthersKept(c) /\ call'[c].pc = pc
      BY <1>1, <2>1, GotoMoves DEF Pcs, Answers, SameCall
    <2>3. UNCHANGED height /\ (d # c => tx'[d] = tx[d])
      BY <1>1, <1>7, SentMoves DEF Send, SendThrows
    <2> QED BY <1>1, <2>2, <2>3 DEF OthersKept, WaitOK
  <1>8. CASE FetchBlockhash(c)
    <2>1. PICK lv \in Nat : lv = height[ConfirmLevel] + Window
      BY <1>2, WindowAssumption
    <2>2. OthersKept(c) /\ call'[c].pc = "confirm" /\ call'[c].lv = lv
      <3>1. Becomes(c, [call[c] EXCEPT !.pc = "confirm", !.lv = lv])
        BY <1>8, <2>1 DEF FetchBlockhash
      <3>2. "confirm" \in Pcs
        BY DEF Pcs
      <3>3. SameCall(c) /\ call'[c].pc = "confirm" /\ call'[c].lv = lv
        BY <1>1, <2>1, <3>1, <3>2, AnswerMoves
      <3> QED BY <3>3 DEF SameCall
    <2>3. UNCHANGED <<height, tx>> /\ tx[c].sent
      BY <1>1, <1>8 DEF FetchBlockhash, TypeOK
    <2>4. tx[c].until <= height[ConfirmLevel] + Window
      BY <1>1, <1>2, <1>3, <2>3, WindowAssumption DEF TxOK
    <2> QED BY <1>1, <2>1, <2>2, <2>3, <2>4 DEF OthersKept, WaitOK
  <1>9. CASE Confirm(c)
    <2>1. PICK pc \in {"ok", "failed"} : Answer(c, pc)
      BY <1>9 DEF Confirm
    <2>2. OthersKept(c) /\ call'[c].pc = pc
      BY <1>1, <2>1, AnswerMoves DEF Pcs, Answers, SameCall, Answer
    <2> QED BY <1>1, <1>9, <2>2 DEF OthersKept, WaitOK, Confirm
  <1>10. CASE Expire(c)
    <2>1. OthersKept(c) /\ call'[c].pc = "expired"
      BY <1>1, <1>10, AnswerMoves DEF Pcs, Answers, SameCall, Answer, Expire
    <2>2. /\ UNCHANGED <<height, tx>> /\ call[c].pc = "confirm"
          /\ ~InBlock(c, height[ConfirmLevel]) /\ height[ConfirmLevel] > call[c].lv
      BY <1>10 DEF Expire
    <2>3. tx[c].until <= call[c].lv
      BY <2>2 DEF ExpiryInv, WaitsOK, WaitOK
    <2>4. tx[c].until < height[ConfirmLevel]
      BY <1>2, <1>3, <2>2, <2>3
    <2>5. tx[c].at = 0
      BY <1>1, <1>2, <1>3, <2>2, <2>4 DEF InBlock, TxOK
    <2> QED BY <1>1, <2>1, <2>2, <2>4, <2>5 DEF OthersKept, WaitOK
  <1> QED BY <1>4, <1>5, <1>6, <1>7, <1>8, <1>9, <1>10 DEF ClientStep

LEMMA ChainKeepsWaitOK ==
    ASSUME ExpiryInv, Trusted, ChainStep, NEW d \in Calls
    PROVE  WaitOK(d)'
  <1>1. BaseInv /\ TypeOK /\ TxOK(d) /\ WaitOK(d)
    BY DEF ExpiryInv, WaitsOK, BaseInv
  <1>2. /\ height[ConfirmLevel] \in Nat /\ height'[ConfirmLevel] \in Nat
        /\ height'[ConfirmLevel] >= height[ConfirmLevel]
        /\ height[ConfirmLevel] <= height["processed"] /\ height["processed"] \in Nat
    BY <1>1, LevelGrows, HeightsAreNat DEF Next
  <1>3. tx[d].until \in Nat /\ tx[d].at \in Nat
    BY <1>1 DEF TypeOK, Tx
  <1>4. UNCHANGED call
    BY DEF ChainStep, Land, NewBlock, Vote, Root, Fork
  <1>5. tx'[d].until = tx[d].until
    <2>1. ASSUME NEW c \in Calls, Land(c) PROVE tx'[d].until = tx[d].until
      BY <1>1, <2>1, LandMoves
    <2>2. ASSUME NEW h \in 1..height["processed"], Fork(h) PROVE tx'[d].until = tx[d].until
      BY <1>1, <1>2, <2>2, ForkMoves
    <2> QED BY <2>1, <2>2 DEF ChainStep, NewBlock, Vote, Root
  <1>6. call[d].pc = "expired" => tx'[d].at = 0
    <2> SUFFICES ASSUME call[d].pc = "expired" PROVE tx'[d].at = 0
      OBVIOUS
    <2>1. tx[d].at = 0 /\ tx[d].until < height[ConfirmLevel]
      BY <1>1 DEF WaitOK
    <2>2. ASSUME NEW c \in Calls, Land(c) PROVE tx'[d].at = 0
      <3>1. d # c
        BY <1>2, <1>3, <2>1, <2>2 DEF Land
      <3> QED BY <1>1, <2>1, <2>2, <3>1, LandMoves
    <2>3. ASSUME NEW h \in 1..height["processed"], Fork(h) PROVE tx'[d].at = 0
      <3>1. h \in Nat
        BY <1>2
      <3> QED BY <1>1, <2>1, <2>3, <3>1, ForkMoves
    <2> QED BY <2>1, <2>2, <2>3 DEF ChainStep, NewBlock, Vote, Root
  <1> QED BY <1>1, <1>2, <1>3, <1>4, <1>5, <1>6 DEF WaitOK

\* The blockhash a wait ends with is no older than that of its transaction.
THEOREM ExpiryInvariant == ASSUME Trusted PROVE Spec => []ExpiryInv
  <1>1. Init => WaitsOK
    <2>1. Init => \A c \in Calls : call[c].pc = "idle"
      <3> SUFFICES ASSUME Init, NEW c \in Calls PROVE call[c].pc = "idle"
        OBVIOUS
      <3> QED BY DEF Init
    <2> QED BY <2>1 DEF WaitOK, WaitsOK
  <1>2. BaseInv /\ WaitsOK /\ [Next]_txVars => WaitsOK'
    <2> SUFFICES ASSUME ExpiryInv, [Next]_txVars, NEW d \in Calls PROVE WaitOK(d)'
      BY DEF ExpiryInv, WaitsOK
    <2>1. CASE UNCHANGED txVars
      BY <2>1 DEF ExpiryInv, WaitsOK, WaitOK, txVars
    <2> QED BY <2>1, ClientKeepsWaitOK, ChainKeepsWaitOK DEF Next
  <1>3. BaseInv /\ WaitsOK => ExpiryInv
    BY DEF ExpiryInv
  <1>4. Spec => []BaseInv
    BY BaseInvariant
  <1> QED BY <1>1, <1>2, <1>3, <1>4, PTL DEF Spec

\* At "confirmed", and at "processed" on a chain that drops no blocks, a
\* transaction reported as expired is in no block and can land in none.
THEOREM ExpiredMeansDead == ASSUME Trusted PROVE Spec => []ExpiredIsDead
  <1>1. ExpiryInv => ExpiredIsDead
    <2> SUFFICES ASSUME ExpiryInv, NEW c \in Calls, call[c].pc = "expired"
                 PROVE  tx[c].at = 0 /\ tx[c].until < height["processed"]
      BY DEF ExpiredIsDead
    <2>1. BaseInv /\ WaitOK(c) /\ TypeOK
      BY DEF ExpiryInv, WaitsOK, BaseInv
    <2>2. /\ height[ConfirmLevel] \in Nat /\ height["processed"] \in Nat
          /\ height[ConfirmLevel] <= height["processed"] /\ tx[c].until \in Nat
      BY <2>1, HeightsAreNat DEF Trusted, BaseInv, HeightsOK, TypeOK, Tx
    <2> QED BY <2>1, <2>2 DEF WaitOK
  <1> QED BY <1>1, ExpiryInvariant, PTL

-----------------------------------------------------------------------------
(* Answers last.  A client that confirms at "confirmed" or above is told   *)
(* of nothing that a later read at "confirmed" does not show.              *)

Firm == ConfirmLevel \in {"confirmed", "finalized"}

AnswerOK(c) ==
    /\ call[c].pc = "idle" <=> call[c].kind = "none"
    /\ call[c].pc \in {"check", "noop"} => call[c].kind = "create"
    /\ call[c].pc = "noop" => ExistsAt(call[c].acct, "confirmed")
    /\ call[c].pc \in {"ok", "failed"} =>
           InBlock(c, height["confirmed"]) /\ (tx[c].ok <=> call[c].pc = "ok")
    /\ call[c].pc # "idle" => \A a \in call[c].told : ExistsAt(a, "confirmed")
    /\ call[c].kind = "create" /\ call[c].acct \in call[c].told
           => ~tx[c].sent /\ call[c].pc \in {"check", "noop", "unknown"}
    /\ call[c].kind = "deposit" /\ call[c].told = Accounts /\ tx[c].at # 0 => tx[c].ok

AnswersOK == \A c \in Calls : AnswerOK(c)
AnswerInv == BaseInv /\ AnswersOK

LEMMA CallMoves ==
    ASSUME TypeOK, NEW c \in Calls, ClientStep(c)
    PROVE  /\ OthersKept(c) /\ UNCHANGED height
           /\ \A d \in Calls : d # c => tx'[d] = tx[d]
           /\ tx'[c] = tx[c] \/ call[c].pc = "send"
           /\ SameCall(c) \/ call[c].pc = "idle"
  <1>1. ASSUME NEW a \in Accounts, Create(c, a)
        PROVE  OthersKept(c) /\ UNCHANGED <<height, tx>> /\ call[c].pc = "idle"
    BY <1>1, CreateMoves DEF Create
  <1>2. CASE Deposit(c)
    <2>1. OthersKept(c) /\ UNCHANGED <<height, tx>> /\ call[c].pc = "idle"
      BY <1>2, DepositMoves DEF Deposit
    <2> QED BY <2>1
  <1>3. CASE Check(c) \/ CheckFails(c) \/ FetchThrows(c)
    <2>1. PICK pc \in {"noop", "send", "unknown"} : Goto(c, pc)
      BY <1>3 DEF Check, CheckFails, FetchThrows
    <2>2. SameCall(c) /\ OthersKept(c)
      BY <2>1, GotoMoves DEF Pcs, Answers, SameCall
    <2> QED BY <1>3, <2>2 DEF Check, CheckFails, FetchThrows
  <1>4. CASE Send(c) \/ SendThrows(c)
    <2>1. PICK pc \in {"blockhash", "unknown"} : Goto(c, pc)
      BY <1>4 DEF Send, SendThrows
    <2>2. SameCall(c) /\ OthersKept(c)
      BY <2>1, GotoMoves DEF Pcs, Answers, SameCall
    <2>3. UNCHANGED height /\ call[c].pc = "send" /\ \A d \in Calls : d # c => tx'[d] = tx[d]
      BY <1>4, SentMoves DEF Send, SendThrows
    <2> QED BY <2>2, <2>3
  <1>5. CASE FetchBlockhash(c)
    <2>1. PICK lv \in Nat : lv = height[ConfirmLevel] + Window
      BY HeightsAreNat, WindowAssumption
    <2>2. SameCall(c) /\ OthersKept(c)
      BY <1>5, <2>1, AnswerMoves DEF Pcs, SameCall, FetchBlockhash
    <2> QED BY <1>5, <2>2 DEF FetchBlockhash
  <1>6. CASE Confirm(c) \/ Expire(c)
    <2>1. PICK pc \in {"ok", "failed", "expired"} : Answer(c, pc)
      BY <1>6 DEF Confirm, Expire
    <2>2. SameCall(c) /\ OthersKept(c)
      BY <2>1, AnswerMoves DEF Pcs, Answers, SameCall, Answer
    <2> QED BY <1>6, <2>2 DEF Confirm, Expire
  <1> QED BY <1>1, <1>2, <1>3, <1>4, <1>5, <1>6 DEF ClientStep

\* Nothing happens any more to a call whose transaction is confirmed, except
\* that it learns of it.
LEMMA ConfirmedStays ==
    ASSUME BaseInv, [Next]_txVars, NEW c \in Calls, InBlock(c, height["confirmed"])
    PROVE  /\ tx'[c] = tx[c] /\ InBlock(c, height["confirmed"])'
           /\ call'[c].kind = call[c].kind /\ call'[c].acct = call[c].acct
  <1>1. TypeOK /\ HeightsOK /\ TxOK(c)
    BY DEF BaseInv
  <1>2. /\ height["processed"] \in Nat /\ height["confirmed"] \in Nat
        /\ tx[c].at \in Nat /\ tx[c].at # 0 /\ tx[c].at <= height["confirmed"]
        /\ "processed" \in Levels /\ "confirmed" \in Levels
    BY <1>1, HeightsAreNat, LevelsExist DEF InBlock, TypeOK, Tx
  <1>3. tx[c].sent /\ call[c].pc # "idle" /\ call[c].pc # "send"
    BY <1>1, <1>2 DEF TxOK
  <1>4. CASE UNCHANGED txVars
    BY <1>4 DEF txVars, InBlock
  <1>5. ASSUME NEW d \in Calls, ClientStep(d)
        PROVE  /\ tx'[c] = tx[c] /\ UNCHANGED height
               /\ call'[c].kind = call[c].kind /\ call'[c].acct = call[c].acct
    BY <1>1, <1>3, <1>5, CallMoves DEF OthersKept, SameCall
  <1>6. ASSUME NEW d \in Calls, Land(d) PROVE tx'[c] = tx[c] /\ UNCHANGED <<height, call>>
    BY <1>1, <1>2, <1>6, LandMoves DEF Land
  <1>7. CASE NewBlock \/ Vote \/ Root
    <2>1. UNCHANGED <<tx, call>> /\ height'["confirmed"] >= height["confirmed"]
          /\ height'["confirmed"] \in Nat
      BY <1>1, <1>2, <1>7, HeightsMove DEF NewBlock, Vote, Root
    <2> QED BY <1>2, <2>1 DEF InBlock
  <1>8. ASSUME NEW h \in 1..height["processed"], Fork(h)
        PROVE  /\ tx'[c] = tx[c] /\ UNCHANGED call
               /\ height'["confirmed"] = height["confirmed"]
    <2>0. h \in Nat
      BY <1>2
    <2>1. h \in Nat /\ height["confirmed"] < h /\ height' = [height EXCEPT !["processed"] = h]
          /\ UNCHANGED call
      BY <1>8, <2>0 DEF Fork
    <2>2. ~(tx[c].at >= h)
      BY <1>2, <2>1
    <2>3. tx'[c] = tx[c]
      BY <1>1, <1>8, <2>1, <2>2, ForkMoves
    <2>4. height'["confirmed"] = height["confirmed"]
      BY <1>1, <1>2, <2>1 DEF TypeOK
    <2> QED BY <2>1, <2>3, <2>4
  <1> QED BY <1>4, <1>5, <1>6, <1>7, <1>8 DEF InBlock, Next, ChainStep

\* An account that a read at "confirmed" shows is there for good.
LEMMA ExistenceStays ==
    ASSUME BaseInv, [Next]_txVars, NEW a, ExistsAt(a, "confirmed")
    PROVE  ExistsAt(a, "confirmed")'
  <1>1. PICK c \in Calls : Creates(c, a) /\ InBlock(c, height["confirmed"]) /\ tx[c].ok
    BY DEF ExistsAt
  <1>2. Creates(c, a)' /\ InBlock(c, height["confirmed"])' /\ tx'[c].ok
    BY <1>1, ConfirmedStays DEF Creates
  <1> QED BY <1>2 DEF ExistsAt

LEMMA ReportedExist ==
    ASSUME AnswerInv, NEW a \in Reported
    PROVE  ExistsAt(a, "confirmed")
  <1>1. PICK c \in Calls : Creates(c, a) /\ call[c].pc \in {"ok", "noop"}
    BY DEF Reported
  <1>2. AnswerOK(c)
    BY DEF AnswerInv, AnswersOK
  <1>3. CASE call[c].pc = "noop"
    BY <1>1, <1>2, <1>3 DEF AnswerOK, Creates
  <1>4. CASE call[c].pc = "ok"
    BY <1>1, <1>2, <1>4 DEF AnswerOK, ExistsAt
  <1> QED BY <1>1, <1>3, <1>4

\* A call that does not move keeps what is known of it.
LEMMA IdleKeepsAnswerOK ==
    ASSUME AnswerInv, [Next]_txVars, NEW c \in Calls, call'[c] = call[c],
           tx'[c] = tx[c] \/ (tx'[c].sent = tx[c].sent /\ tx'[c].at = 0)
    PROVE  AnswerOK(c)'
  <1>1. AnswerOK(c) /\ BaseInv
    BY DEF AnswerInv, AnswersOK
  <1>2. call[c].pc = "noop" => ExistsAt(call[c].acct, "confirmed")'
    BY <1>1, ExistenceStays DEF AnswerOK
  <1>3. call[c].pc \in {"ok", "failed"} =>
           InBlock(c, height["confirmed"])' /\ (tx'[c].ok <=> call[c].pc = "ok")
    BY <1>1, ConfirmedStays DEF AnswerOK
  <1>4. call[c].pc # "idle" => \A a \in call[c].told : ExistsAt(a, "confirmed")'
    BY <1>1, ExistenceStays DEF AnswerOK
  <1> QED BY <1>1, <1>2, <1>3, <1>4 DEF AnswerOK

\* The same for a call that moved without sending and without answering.
LEMMA QuietKeepsAnswerOK ==
    ASSUME AnswerInv, [Next]_txVars, NEW c \in Calls, SameCall(c), tx'[c] = tx[c],
           call[c].pc # "idle",
           call'[c].pc \in {"blockhash", "confirm", "send", "unknown", "expired"},
           call'[c].kind = "create" /\ call'[c].acct \in call'[c].told
               => call'[c].pc \in {"check", "noop", "unknown"}
    PROVE  AnswerOK(c)'
  <1>1. AnswerOK(c) /\ BaseInv
    BY DEF AnswerInv, AnswersOK
  <1>2. \A a \in call[c].told : ExistsAt(a, "confirmed")'
    BY <1>1, ExistenceStays DEF AnswerOK
  <1> QED BY <1>1, <1>2 DEF AnswerOK, SameCall

LEMMA ClientKeepsAnswerOK ==
    ASSUME AnswerInv, Firm, NEW c \in Calls, ClientStep(c)
    PROVE  AnswerOK(c)'
  <1>1. /\ AnswerOK(c) /\ BaseInv /\ TypeOK /\ TxOK(c) /\ HeightsOK /\ [Next]_txVars
        /\ UNCHANGED height
    BY CallMoves DEF AnswerInv, AnswersOK, BaseInv, Next
  <1>2. ASSUME NEW a \in Reported PROVE ExistsAt(a, "confirmed")'
    BY <1>1, ReportedExist, ExistenceStays
  <1>3. ASSUME NEW a \in Accounts, Create(c, a) PROVE AnswerOK(c)'
    <2>1. /\ call'[c].pc = "check" /\ call'[c].kind = "create"
          /\ call'[c].acct = a /\ call'[c].told = Reported
          /\ tx' = tx /\ call[c].pc = "idle"
      BY <1>1, <1>3, CreateMoves DEF Create
    <2>2. ~tx[c].sent /\ tx[c].at = 0
      BY <1>1, <2>1 DEF TxOK
    <2> QED BY <1>2, <2>1, <2>2 DEF AnswerOK
  <1>4. CASE Deposit(c)
    <2>1. /\ call'[c].pc = "send" /\ call'[c].kind = "deposit" /\ call'[c].told = Reported
          /\ tx' = tx /\ call[c].pc = "idle"
      BY <1>1, <1>4, DepositMoves DEF Deposit
    <2>2. ~tx[c].sent /\ tx[c].at = 0
      BY <1>1, <2>1 DEF TxOK
    <2> QED BY <1>2, <2>1, <2>2 DEF AnswerOK
  <1>5. CASE Check(c)
    <2>1. PICK pc \in {"noop", "send"} :
             Goto(c, pc) /\ (pc = "noop" <=> ExistsAt(call[c].acct, "confirmed"))
      BY <1>5 DEF Check, CheckLevel
    <2>2. SameCall(c) /\ call'[c].pc = pc /\ UNCHANGED tx /\ call[c].pc = "check"
      BY <1>1, <1>5, <2>1, GotoMoves DEF Pcs, Answers, Check
    <2>3. \A a \in call[c].told : ExistsAt(a, "confirmed") /\ ExistsAt(a, "confirmed")'
      BY <1>1, <2>2, ExistenceStays DEF AnswerOK
    <2>4. CASE pc = "send"
      <3>1. call[c].acct \notin call[c].told
        BY <2>1, <2>3, <2>4
      <3>2. call'[c].acct \notin call'[c].told
        BY <2>2, <3>1 DEF SameCall
      <3>3. call'[c].pc = "send" /\ call[c].pc # "idle" /\ tx'[c] = tx[c]
        BY <2>2, <2>4
      <3>4. call'[c].kind = "create" /\ call'[c].acct \in call'[c].told
               => call'[c].pc \in {"check", "noop", "unknown"}
        BY <3>2
      <3>5. SameCall(c)
        BY <2>2
      <3>6. call'[c].pc \in {"blockhash", "confirm", "send", "unknown", "expired"}
        BY <3>3
      <3> QED BY <1>1, <3>3, <3>4, <3>5, <3>6, QuietKeepsAnswerOK
    <2>5. CASE pc = "noop"
      <3>0. PICK a \in Accounts : a = call[c].acct /\ a = call'[c].acct
        BY <1>1, <2>2 DEF TypeOK, Call, SameCall
      <3>1. ExistsAt(a, "confirmed")'
        BY <1>1, <2>1, <2>5, <3>0, ExistenceStays
      <3>2. ExistsAt(call[c].acct, "confirmed")'
        BY <3>0, <3>1
      <3> QED BY <1>1, <2>2, <2>3, <2>5, <3>2 DEF AnswerOK, SameCall
    <2> QED BY <2>4, <2>5
  <1>6. CASE CheckFails(c) \/ FetchThrows(c)
    <2>1. /\ Goto(c, "unknown") /\ UNCHANGED tx /\ call[c].pc # "idle"
      BY <1>6 DEF CheckFails, FetchThrows
    <2>2. SameCall(c) /\ call'[c].pc = "unknown"
      BY <1>1, <2>1, GotoMoves DEF Pcs, Answers
    <2> QED BY <1>1, <2>1, <2>2, QuietKeepsAnswerOK
  <1>7. CASE Send(c) \/ SendThrows(c)
    <2>1. PICK pc \in {"blockhash", "unknown"} : Goto(c, pc)
      BY <1>7 DEF Send, SendThrows
    <2>2. SameCall(c) /\ call'[c].pc = pc /\ call[c].pc = "send"
      BY <1>1, <1>7, <2>1, GotoMoves DEF Pcs, Answers, Send, SendThrows
    <2>3. call[c].kind = "create" /\ call[c].acct \in call[c].told => FALSE
      BY <1>1, <2>2 DEF AnswerOK
    <2>4. tx[c].at = 0
      BY <1>1, <2>2 DEF TxOK
    <2>5. tx'[c].at = 0
      BY <1>1, <1>7, <2>4, SentMoves DEF Send, SendThrows
    <2>6. \A a \in call[c].told : ExistsAt(a, "confirmed")'
      BY <1>1, <2>2, ExistenceStays DEF AnswerOK
    <2> QED BY <1>1, <2>2, <2>3, <2>5, <2>6 DEF AnswerOK, SameCall
  <1>8. CASE FetchBlockhash(c)
    <2>1. PICK lv \in Nat : lv = height[ConfirmLevel] + Window
      BY <1>1, HeightsAreNat, WindowAssumption
    <2>2. SameCall(c) /\ call'[c].pc = "confirm" /\ UNCHANGED tx /\ call[c].pc = "blockhash"
      BY <1>1, <1>8, <2>1, AnswerMoves DEF Pcs, FetchBlockhash
    <2> QED BY <1>1, <2>2, QuietKeepsAnswerOK DEF AnswerOK, SameCall
  <1>9. CASE Confirm(c)
    <2>1. PICK pc \in {"ok", "failed"} : Answer(c, pc) /\ (tx[c].ok <=> pc = "ok")
      BY <1>9 DEF Confirm
    <2>2. SameCall(c) /\ call'[c].pc = pc /\ UNCHANGED tx /\ call[c].pc = "confirm"
      BY <1>1, <1>9, <2>1, AnswerMoves DEF Pcs, Answers, Answer, Confirm
    <2>3. InBlock(c, height["confirmed"])
      <3>1. InBlock(c, height[ConfirmLevel])
        BY <1>9 DEF Confirm
      <3>2. tx[c].at \in Nat /\ height["confirmed"] \in Nat /\ height[ConfirmLevel] \in Nat
        BY <1>1, HeightsAreNat DEF TypeOK, Tx
      <3>3. height[ConfirmLevel] <= height["confirmed"]
        BY <1>1, <3>2, LevelsExist DEF Firm, HeightsOK
      <3> QED BY <3>1, <3>2, <3>3 DEF InBlock
    <2>4. InBlock(c, height["confirmed"])'
      BY <1>1, <2>3, ConfirmedStays
    <2>5. \A a \in call[c].told : ExistsAt(a, "confirmed")'
      BY <1>1, <2>2, ExistenceStays DEF AnswerOK
    <2>6. call[c].kind = "create" /\ call[c].acct \in call[c].told => FALSE
      BY <1>1, <2>2 DEF AnswerOK
    <2> QED BY <1>1, <2>1, <2>2, <2>4, <2>5, <2>6 DEF AnswerOK, SameCall
  <1>10. CASE Expire(c)
    <2>1. SameCall(c) /\ call'[c].pc = "expired" /\ UNCHANGED tx /\ call[c].pc = "confirm"
      BY <1>1, <1>10, AnswerMoves DEF Pcs, Answers, Answer, Expire
    <2> QED BY <1>1, <2>1, QuietKeepsAnswerOK DEF AnswerOK, SameCall
  <1> QED BY <1>3, <1>4, <1>5, <1>6, <1>7, <1>8, <1>9, <1>10 DEF ClientStep

\* A deposit whose accounts are confirmed succeeds where it lands.
LEMMA LandKeepsAnswerOK ==
    ASSUME AnswerInv, NEW c \in Calls, Land(c)
    PROVE  AnswerOK(c)'
  <1>1. AnswerOK(c) /\ BaseInv /\ TypeOK /\ HeightsOK /\ [Next]_txVars
    BY DEF AnswerInv, AnswersOK, BaseInv, Next, ChainStep
  <1>2. /\ tx'[c].sent = tx[c].sent /\ tx'[c].at = height["processed"] /\ tx'[c].ok = Works(c)
        /\ UNCHANGED call /\ tx[c].at = 0
    BY <1>1, LandMoves DEF Land
  <1>3. call[c].pc \notin {"ok", "failed"}
    <2>1. ~InBlock(c, height["confirmed"])
      BY <1>2 DEF InBlock
    <2>2. call[c].pc \in {"ok", "failed"} => InBlock(c, height["confirmed"])
      BY <1>1 DEF AnswerOK
    <2> QED BY <2>1, <2>2
  <1>4. call[c].pc = "noop" => ExistsAt(call[c].acct, "confirmed")'
    <2>1. PICK a \in Accounts : a = call[c].acct /\ a = call'[c].acct
      BY <1>1, <1>2 DEF TypeOK, Call
    <2>2. call[c].pc = "noop" => ExistsAt(a, "confirmed")'
      BY <1>1, <2>1, ExistenceStays DEF AnswerOK
    <2> QED BY <2>1, <2>2
  <1>5. call[c].pc # "idle" => \A a \in call[c].told : ExistsAt(a, "confirmed")'
    BY <1>1, ExistenceStays DEF AnswerOK
  <1>6. call[c].kind = "deposit" /\ call[c].told = Accounts => Works(c)
    <2> SUFFICES ASSUME call[c].kind = "deposit", call[c].told = Accounts,
                        NEW a \in Accounts
                 PROVE  ExistsAt(a, "processed")
      BY DEF Works
    <2>1. ExistsAt(a, "confirmed")
      BY <1>1 DEF AnswerOK
    <2>2. PICK d \in Calls : Creates(d, a) /\ InBlock(d, height["confirmed"]) /\ tx[d].ok
      BY <2>1 DEF ExistsAt
    <2>3. /\ tx[d].at \in Nat /\ height["confirmed"] \in Nat /\ height["processed"] \in Nat
      BY <1>1, HeightsAreNat DEF TypeOK, Tx
    <2>4. InBlock(d, height["processed"])
      BY <1>1, <2>2, <2>3 DEF InBlock, HeightsOK
    <2> QED BY <2>2, <2>4 DEF ExistsAt
  <1>7. /\ call[c].pc = "idle" <=> call[c].kind = "none"
        /\ call[c].pc \in {"check", "noop"} => call[c].kind = "create"
        /\ call[c].kind = "create" /\ call[c].acct \in call[c].told
              => ~tx[c].sent /\ call[c].pc \in {"check", "noop", "unknown"}
    BY <1>1 DEF AnswerOK
  <1> QED BY <1>2, <1>3, <1>4, <1>5, <1>6, <1>7 DEF AnswerOK

LEMMA AnswersOKStep ==
    ASSUME AnswerInv, Firm, [Next]_txVars
    PROVE  AnswersOK'
  <1> SUFFICES ASSUME NEW d \in Calls PROVE AnswerOK(d)'
    BY DEF AnswersOK
  <1>1. BaseInv /\ TypeOK
    BY DEF AnswerInv, BaseInv
  <1>2. CASE UNCHANGED txVars
    BY <1>2, IdleKeepsAnswerOK DEF txVars
  <1>3. ASSUME NEW c \in Calls, ClientStep(c) PROVE AnswerOK(d)'
    <2>1. CASE d = c
      BY <1>3, <2>1, ClientKeepsAnswerOK
    <2>2. CASE d # c
      <3>1. call'[d] = call[d] /\ tx'[d] = tx[d]
        BY <1>1, <1>3, <2>2, CallMoves DEF OthersKept
      <3> QED BY <3>1, IdleKeepsAnswerOK
    <2> QED BY <2>1, <2>2
  <1>4. ASSUME NEW c \in Calls, Land(c) PROVE AnswerOK(d)'
    <2>1. CASE d = c
      BY <1>4, <2>1, LandKeepsAnswerOK
    <2>2. CASE d # c
      <3>1. call'[d] = call[d] /\ tx'[d] = tx[d]
        BY <1>1, <1>4, <2>2, LandMoves DEF Land
      <3> QED BY <3>1, IdleKeepsAnswerOK
    <2> QED BY <2>1, <2>2
  <1>5. CASE NewBlock \/ Vote \/ Root
    BY <1>5, IdleKeepsAnswerOK DEF NewBlock, Vote, Root
  <1>6. ASSUME NEW h \in 1..height["processed"], Fork(h) PROVE AnswerOK(d)'
    <2>0. h \in Nat
      BY <1>1, HeightsAreNat
    <2>1. h \in Nat /\ UNCHANGED call
      BY <1>6, <2>0 DEF Fork
    <2>2. tx'[d] = tx[d] \/ (tx'[d].sent = tx[d].sent /\ tx'[d].at = 0)
      BY <1>1, <1>6, <2>1, ForkMoves
    <2> QED BY <2>1, <2>2, IdleKeepsAnswerOK
  <1> QED BY <1>2, <1>3, <1>4, <1>5, <1>6 DEF Next, ChainStep

\* What a call reported is in a confirmed block.
THEOREM AnswerInvariant == ASSUME Firm PROVE Spec => []AnswerInv
  <1>1. Init => AnswersOK
    <2> SUFFICES ASSUME Init, NEW c \in Calls PROVE AnswerOK(c)
      BY DEF AnswersOK
    <2>1. call[c].pc = "idle" /\ call[c].kind = "none"
      BY DEF Init
    <2> QED BY <2>1 DEF AnswerOK
  <1>2. BaseInv /\ AnswersOK /\ [Next]_txVars => AnswersOK'
    BY AnswersOKStep DEF AnswerInv
  <1>3. BaseInv /\ AnswersOK => AnswerInv
    BY DEF AnswerInv
  <1>4. Spec => []BaseInv
    BY BaseInvariant
  <1> QED BY <1>1, <1>2, <1>3, <1>4, PTL DEF Spec

\* What a call reports of its transaction is confirmed and stays.
THEOREM AnswersStay == ASSUME Firm PROVE Spec => []AnswerStays
  <1>1. AnswerInv => AnswerStays
    BY DEF AnswerInv, AnswersOK, AnswerOK, AnswerStays
  <1> QED BY <1>1, AnswerInvariant, PTL

\* Creating an account again, after any call reported it, sends nothing.
THEOREM CreatingAgainIsNoop == ASSUME Firm PROVE Spec => []CreateIsNoop
  <1>1. AnswerInv => CreateIsNoop
    BY DEF AnswerInv, AnswersOK, AnswerOK, CreateIsNoop
  <1> QED BY <1>1, AnswerInvariant, PTL

\* A deposit made after the setup was reported does not miss an account.
THEOREM DepositsFindAccounts == ASSUME Firm PROVE Spec => []DepositFindsAccounts
  <1>1. AnswerInv => DepositFindsAccounts
    <2> SUFFICES ASSUME AnswerInv, NEW c \in Calls, call[c].kind = "deposit",
                        call[c].told = Accounts
                 PROVE  call[c].pc # "failed"
      BY DEF DepositFindsAccounts
    <2>1. AnswerOK(c)
      BY DEF AnswerInv, AnswersOK
    <2> QED BY <2>1 DEF AnswerOK, InBlock
  <1> QED BY <1>1, AnswerInvariant, PTL
=============================================================================
