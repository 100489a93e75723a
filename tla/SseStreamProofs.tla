--------------------------- MODULE SseStreamProofs ---------------------------
(***************************************************************************)
(* What SseStream's runs check, proved for every set of client set-ups and *)
(* every length of stream.                                                 *)
(***************************************************************************)
EXTENDS SseStreamInv, SequenceTheorems, TLAPS

-----------------------------------------------------------------------------
(* What the operators on the response do.                                  *)

LEMMA LosesTailType == TypeOK /\ LosesTail => pipe' \in Seq(Events)
<1> SUFFICES ASSUME TypeOK, NEW k \in 0..Len(pipe), pipe' = SubSeq(pipe, 1, k)
             PROVE  pipe' \in Seq(Events)
  BY DEF LosesTail
<1>1. \A i \in 1..k : pipe[i] \in Events
  BY ElementOfSeq DEF TypeOK
<1>2. QED
  BY <1>1, SubSeqProperties

LEMMA SubSeqOfEmpty == pipe = <<>> /\ LosesTail => pipe' = <<>>
<1> SUFFICES ASSUME pipe = <<>>, NEW k \in 0..Len(pipe), pipe' = SubSeq(pipe, 1, k)
             PROVE  pipe' = <<>>
  BY DEF LosesTail
<1>1. k = 0
  OBVIOUS
<1>2. QED
  BY <1>1, SubSeqEmpty

LEMMA SendsEffect ==
    ASSUME TypeOK, NEW kind \in {"data", "error", "end"}, Sends(kind)
    PROVE  /\ pipe' \in Seq(Events)
           /\ wire # "open" => pipe' = pipe
           /\ wire = "open" =>
                /\ Len(pipe') = Len(pipe) + 1
                /\ pipe'[Len(pipe) + 1].kind = kind
                /\ \A i \in 1..Len(pipe) : pipe'[i] = pipe[i]
<1> DEFINE e == [kind |-> kind, n |-> made + 1]
<1>1. pipe \in Seq(Events) /\ e \in Events /\ e.kind = kind
  BY DEF TypeOK, Events
<1>2. CASE wire = "open"
  <2>1. pipe' = Append(pipe, e)
    BY <1>2 DEF Sends
  <2> HIDE DEF e
  <2>2. QED
    BY <1>1, <1>2, <2>1, AppendProperties
<1>3. CASE wire # "open"
  BY <1>1, <1>3 DEF Sends
<1>4. QED
  BY <1>2, <1>3

\* A schema only decides how the pending next() settles.
LEMMA ReadsDataEffect ==
    ASSUME NEW valid \in BOOLEAN, ReadsData(valid)
    PROVE  /\ Parses("data")
           /\ gen' = "yielded" /\ handed' = handed + 1 /\ next' = "idle"
           /\ outcome' \in {"none", "threw"}
           /\ UNCHANGED <<setup, cancel, shim, exit, wire, cut, serverVars>>
<1>1. outcome' = IF valid THEN "none" ELSE "threw"
  BY DEF ReadsData
<1>2. outcome' \in {"none", "threw"}
  BY <1>1, Zenon
<1>3. QED
  BY <1>2 DEF ReadsData

LEMMA ParsesEffect ==
    ASSUME TypeOK, NEW kind, Parses(kind)
    PROVE  /\ pipe' \in Seq(Events)
           /\ pipe # <<>> /\ Len(pipe) \in Nat /\ Len(pipe) > 0
           /\ pipe[1].kind = kind
           /\ Len(pipe') = Len(pipe) - 1
           /\ \A i \in 1..Len(pipe') : pipe'[i] = pipe[i + 1]
<1>1. pipe \in Seq(Events) /\ pipe # <<>> /\ pipe' = Tail(pipe) /\ Head(pipe).kind = kind
  BY DEF Parses, TypeOK
<1>2. Len(pipe) \in Nat /\ Len(pipe) > 0 /\ Head(pipe) = pipe[1]
  BY <1>1, EmptySeq, LenProperties
<1>3. QED
  BY <1>1, <1>2, HeadTailProperties

-----------------------------------------------------------------------------
(* Types.                                                                  *)

LEMMA TypeInit == Init => TypeOK
<1> SUFFICES ASSUME Init PROVE TypeOK
  OBVIOUS
<1>1. setup \in Setups
  BY SetupAssumption DEF Init
<1>2. shim \in {"start", "importing", "ready"}
  BY Zenon DEF Init
<1>3. pipe \in Seq(Events)
  BY EmptySeq DEF Init
<1>4. QED
  BY <1>1, <1>2, <1>3 DEF Init, TypeOK

LEMMA TypeNext == TypeOK /\ [Next]_vars => TypeOK'
<1> SUFFICES ASSUME TypeOK, [Next]_vars PROVE TypeOK'
  OBVIOUS
<1>1. CASE ConsumerNext
  BY <1>1 DEF ConsumerNext, Pull, TypeOK, vars, clientVars, consumerVars, serverVars
<1>2. CASE ConsumerReturn
  BY <1>2, LosesTailType DEF ConsumerReturn, Abort, TypeOK, vars, clientVars, consumerVars, serverVars
<1>3. CASE ImportResolves
  BY <1>3 DEF ImportResolves, Pull, TypeOK, vars, clientVars, consumerVars, serverVars
<1>4. CASE ImportFails
  BY <1>4 DEF ImportFails, TypeOK, vars, clientVars, consumerVars, serverVars
<1>5. CASE ReturnReaches
  BY <1>5, LosesTailType DEF ReturnReaches, Abort, TypeOK, vars, clientVars, consumerVars, serverVars
<1>6. CASE ReturnResolves
  BY <1>6 DEF ReturnResolves, TypeOK, vars, clientVars, consumerVars, serverVars
<1>7. CASE FetchResolves
  BY <1>7 DEF FetchResolves, TypeOK, vars, clientVars, consumerVars, serverVars
<1>8. CASE FetchFails
  BY <1>8 DEF FetchFails, TypeOK, vars, clientVars, consumerVars, serverVars
<1>9. ASSUME NEW valid \in BOOLEAN, ReadsData(valid) PROVE TypeOK'
  <2>1. Parses("data") /\ pipe' \in Seq(Events)
    BY <1>9, ReadsDataEffect, ParsesEffect
  <2>2. QED
    BY <1>9, <2>1, ReadsDataEffect DEF TypeOK, serverVars
<1>10. ASSUME NEW kind \in {"error", "end"}, ReadsLast(kind) PROVE TypeOK'
  BY <1>10, ParsesEffect DEF ReadsLast, TypeOK, vars, clientVars, consumerVars, serverVars
<1>11. CASE ReadsEof
  BY <1>11 DEF ReadsEof, TypeOK, vars, clientVars, consumerVars, serverVars
<1>12. CASE ReadFails
  BY <1>12 DEF ReadFails, TypeOK, vars, clientVars, consumerVars, serverVars
<1>13. CASE ReaderCancelled
  BY <1>13 DEF ReaderCancelled, TypeOK, vars, clientVars, consumerVars, serverVars
<1>14. CASE ServerAccepts
  BY <1>14 DEF ServerAccepts, TypeOK, vars, clientVars, consumerVars, serverVars
<1>15. CASE ServerRefuses
  BY <1>15 DEF ServerRefuses, TypeOK, vars, clientVars, consumerVars, serverVars
<1>16. CASE ServerRejects
  BY <1>16, SendsEffect DEF ServerRejects, TypeOK, vars, clientVars, consumerVars, serverVars
<1>17. CASE ServerEnds
  BY <1>17, SendsEffect DEF ServerEnds, TypeOK, vars, clientVars, consumerVars, serverVars
<1>18. CASE ServerDrops
  BY <1>18 DEF ServerDrops, TypeOK, vars, clientVars, consumerVars, serverVars
<1>19. CASE ServerStreamEnds
  BY <1>19 DEF ServerStreamEnds, TypeOK, vars, clientVars, consumerVars, serverVars
<1>20. ASSUME NEW kind \in {"data", "error"}, ServerYields(kind) PROVE TypeOK'
  BY <1>20, SendsEffect DEF ServerYields, TypeOK, vars, clientVars, consumerVars, serverVars
<1>21. ASSUME NEW how \in {"broken", "eof"}, NetworkCuts(how) PROVE TypeOK'
  BY <1>21, LosesTailType DEF NetworkCuts, TypeOK, vars, clientVars, consumerVars, serverVars
<1>22. CASE Finished \/ UNCHANGED vars
  BY <1>22 DEF Finished, TypeOK, vars, clientVars, consumerVars, serverVars
<1>23. QED
  BY <1>1, <1>2, <1>3, <1>4, <1>5, <1>6, <1>7, <1>8, <1>9, <1>10, <1>11,
     <1>12, <1>13, <1>14, <1>15, <1>16, <1>17, <1>18, <1>19, <1>20, <1>21,
     <1>22 DEF Next, ConsumerStep, ClientStep, ServerStep, StreamStep

\* Every variable keeps its type, for every stream and client.
THEOREM TypeCorrect == Spec => []TypeOK
BY TypeInit, TypeNext, PTL DEF Spec

-----------------------------------------------------------------------------
(* The inductive invariant, part by part.                                  *)

LEMMA InvInit == Init => IInv
BY EmptySeq DEF Init, IInv, GenInv, WireInv, WholeInv, ExitInv, InLoop

LEMMA GenInvNext == TypeOK /\ GenInv /\ WireInv /\ [Next]_vars => GenInv'
<1> SUFFICES ASSUME TypeOK, GenInv, WireInv, [Next]_vars PROVE GenInv'
  OBVIOUS
<1> USE DEF GenInv, InLoop, TypeOK
<1>1. CASE ConsumerNext
  <2>1. CASE shim = "start"
    BY <1>1, <2>1 DEF ConsumerNext, Running, serverVars
  <2>2. CASE shim # "start"
    BY <1>1, <2>2 DEF ConsumerNext, Pull, Running, serverVars
  <2>3. QED
    BY <2>1, <2>2
<1>2. CASE ConsumerReturn
  BY <1>2 DEF ConsumerReturn, Abort, Running, vars, clientVars, consumerVars, serverVars
<1>3. CASE ImportResolves
  BY <1>3 DEF ImportResolves, Pull, vars, clientVars, consumerVars, serverVars
<1>4. CASE ImportFails
  BY <1>4 DEF ImportFails, vars, clientVars, consumerVars, serverVars
<1>5. CASE ReturnReaches
  BY <1>5 DEF ReturnReaches, Abort, vars, clientVars, consumerVars, serverVars
<1>6. CASE ReturnResolves
  BY <1>6 DEF ReturnResolves, vars, clientVars, consumerVars, serverVars
<1>7. CASE FetchResolves
  BY <1>7 DEF FetchResolves, vars, clientVars, consumerVars, serverVars
<1>8. CASE FetchFails
  BY <1>8 DEF FetchFails, vars, clientVars, consumerVars, serverVars
<1>9. ASSUME NEW valid \in BOOLEAN, ReadsData(valid) PROVE GenInv'
  BY <1>9, ReadsDataEffect DEF Parses, vars, clientVars, consumerVars, serverVars
<1>10. ASSUME NEW kind \in {"error", "end"}, ReadsLast(kind) PROVE GenInv'
  BY <1>10 DEF ReadsLast, Parses, vars, clientVars, consumerVars, serverVars
<1>11. CASE ReadsEof
  BY <1>11 DEF ReadsEof, vars, clientVars, consumerVars, serverVars
<1>12. CASE ReadFails
  BY <1>12 DEF ReadFails, vars, clientVars, consumerVars, serverVars
<1>13. CASE ReaderCancelled
  <2>1. CASE next # "idle"
    <3>1. outcome' = IF exit \in {"end", "eof"} THEN "done" ELSE "threw"
      BY <1>13, <2>1 DEF ReaderCancelled
    <3>2. QED
      BY <1>13, <3>1 DEF ReaderCancelled, serverVars
  <2>2. CASE next = "idle"
    <3>1. outcome' = outcome
      BY <1>13, <2>2 DEF ReaderCancelled
    <3>2. QED
      BY <1>13, <3>1 DEF ReaderCancelled, serverVars
  <2>3. QED
    BY <2>1, <2>2
<1>14. CASE ServerAccepts
  BY <1>14 DEF ServerAccepts, vars, clientVars, consumerVars, serverVars
<1>15. CASE ServerRefuses
  BY <1>15 DEF ServerRefuses, vars, clientVars, consumerVars, serverVars
<1>16. CASE ServerRejects
  BY <1>16 DEF ServerRejects, vars, clientVars, consumerVars, serverVars
<1>17. CASE ServerEnds
  BY <1>17 DEF ServerEnds, vars, clientVars, consumerVars, serverVars
<1>18. CASE ServerDrops
  BY <1>18 DEF ServerDrops, vars, clientVars, consumerVars, serverVars
<1>19. CASE ServerStreamEnds
  BY <1>19 DEF ServerStreamEnds, vars, clientVars, consumerVars, serverVars
<1>20. ASSUME NEW kind \in {"data", "error"}, ServerYields(kind) PROVE GenInv'
  BY <1>20 DEF ServerYields, vars, clientVars, consumerVars, serverVars
<1>21. ASSUME NEW how \in {"broken", "eof"}, NetworkCuts(how) PROVE GenInv'
  BY <1>21 DEF NetworkCuts, vars, clientVars, consumerVars, serverVars
<1>22. CASE Finished \/ UNCHANGED vars
  BY <1>22 DEF Finished, vars, clientVars, consumerVars, serverVars
<1>23. QED
  BY <1>1, <1>2, <1>3, <1>4, <1>5, <1>6, <1>7, <1>8, <1>9, <1>10, <1>11,
     <1>12, <1>13, <1>14, <1>15, <1>16, <1>17, <1>18, <1>19, <1>20, <1>21,
     <1>22 DEF Next, ConsumerStep, ClientStep, ServerStep, StreamStep

LEMMA WireInvNext == TypeOK /\ GenInv /\ WireInv /\ [Next]_vars => WireInv'
<1> SUFFICES ASSUME TypeOK, GenInv, WireInv, [Next]_vars PROVE WireInv'
  OBVIOUS
<1> USE DEF GenInv, WireInv, InLoop, TypeOK
<1>1. CASE ConsumerNext
  BY <1>1 DEF ConsumerNext, Pull, vars, clientVars, consumerVars, serverVars
<1>2. CASE ConsumerReturn
  BY <1>2, SubSeqOfEmpty DEF ConsumerReturn, Abort, vars, clientVars, consumerVars, serverVars
<1>3. CASE ImportResolves
  BY <1>3 DEF ImportResolves, Pull, vars, clientVars, consumerVars, serverVars
<1>4. CASE ImportFails
  BY <1>4 DEF ImportFails, vars, clientVars, consumerVars, serverVars
<1>5. CASE ReturnReaches
  BY <1>5, SubSeqOfEmpty DEF ReturnReaches, Abort, vars, clientVars, consumerVars, serverVars
<1>6. CASE ReturnResolves
  BY <1>6 DEF ReturnResolves, vars, clientVars, consumerVars, serverVars
<1>7. CASE FetchResolves
  BY <1>7 DEF FetchResolves, vars, clientVars, consumerVars, serverVars
<1>8. CASE FetchFails
  BY <1>8 DEF FetchFails, vars, clientVars, consumerVars, serverVars
<1>9. ASSUME NEW valid \in BOOLEAN, ReadsData(valid) PROVE WireInv'
  BY <1>9, ReadsDataEffect DEF Parses, vars, clientVars, consumerVars, serverVars
<1>10. ASSUME NEW kind \in {"error", "end"}, ReadsLast(kind) PROVE WireInv'
  BY <1>10 DEF ReadsLast, Parses, vars, clientVars, consumerVars, serverVars
<1>11. CASE ReadsEof
  BY <1>11 DEF ReadsEof, vars, clientVars, consumerVars, serverVars
<1>12. CASE ReadFails
  BY <1>12 DEF ReadFails, vars, clientVars, consumerVars, serverVars
<1>13. CASE ReaderCancelled
  BY <1>13 DEF ReaderCancelled, vars, clientVars, consumerVars, serverVars
<1>14. CASE ServerAccepts
  BY <1>14 DEF ServerAccepts, vars, clientVars, consumerVars, serverVars
<1>15. CASE ServerRefuses
  BY <1>15 DEF ServerRefuses, vars, clientVars, consumerVars, serverVars
<1>16. CASE ServerRejects
  BY <1>16 DEF ServerRejects, vars, clientVars, consumerVars, serverVars
<1>17. CASE ServerEnds
  BY <1>17 DEF ServerEnds, vars, clientVars, consumerVars, serverVars
<1>18. CASE ServerDrops
  BY <1>18 DEF ServerDrops, vars, clientVars, consumerVars, serverVars
<1>19. CASE ServerStreamEnds
  BY <1>19 DEF ServerStreamEnds, vars, clientVars, consumerVars, serverVars
<1>20. ASSUME NEW kind \in {"data", "error"}, ServerYields(kind) PROVE WireInv'
  BY <1>20 DEF ServerYields, vars, clientVars, consumerVars, serverVars
<1>21. ASSUME NEW how \in {"broken", "eof"}, NetworkCuts(how) PROVE WireInv'
  BY <1>21 DEF NetworkCuts, vars, clientVars, consumerVars, serverVars
<1>22. CASE Finished \/ UNCHANGED vars
  BY <1>22 DEF Finished, vars, clientVars, consumerVars, serverVars
<1>23. QED
  BY <1>1, <1>2, <1>3, <1>4, <1>5, <1>6, <1>7, <1>8, <1>9, <1>10, <1>11,
     <1>12, <1>13, <1>14, <1>15, <1>16, <1>17, <1>18, <1>19, <1>20, <1>21,
     <1>22 DEF Next, ConsumerStep, ClientStep, ServerStep, StreamStep

LEMMA WholeInvNext ==
    TypeOK /\ GenInv /\ WireInv /\ WholeInv /\ [Next]_vars => WholeInv'
<1> SUFFICES ASSUME TypeOK, GenInv, WireInv, WholeInv, [Next]_vars,
                    (cancel = "no" /\ ~cut /\ InLoop)'
             PROVE  WholeInv'
  BY DEF WholeInv
<1> USE DEF GenInv, WireInv, WholeInv, InLoop, TypeOK
<1>1. CASE ConsumerNext
  BY <1>1 DEF ConsumerNext, Pull, Running, vars, clientVars, consumerVars, serverVars
<1>2. CASE ConsumerReturn
  BY <1>2 DEF ConsumerReturn, vars, clientVars, consumerVars, serverVars
<1>3. CASE ImportResolves
  BY <1>3 DEF ImportResolves, Pull, vars, clientVars, consumerVars, serverVars
<1>4. CASE ImportFails
  BY <1>4 DEF ImportFails, vars, clientVars, consumerVars, serverVars
<1>5. CASE ReturnReaches
  BY <1>5 DEF ReturnReaches, vars, clientVars, consumerVars, serverVars
<1>6. CASE ReturnResolves
  BY <1>6 DEF ReturnResolves, vars, clientVars, consumerVars, serverVars
<1>7. CASE FetchResolves
  BY <1>7 DEF FetchResolves, vars, clientVars, consumerVars, serverVars
<1>8. CASE FetchFails
  BY <1>8 DEF FetchFails, vars, clientVars, consumerVars, serverVars
<1>9. ASSUME NEW valid \in BOOLEAN, ReadsData(valid) PROVE WholeInv'
  <2>1. /\ Parses("data") /\ gen = "reading" /\ handed' = handed + 1
        /\ UNCHANGED <<cancel, wire, cut, server, made>>
    BY <1>9, ReadsDataEffect DEF Parses, serverVars
  <2>2. /\ pipe # <<>> /\ Len(pipe) \in Nat /\ Len(pipe) > 0 /\ Len(pipe') = Len(pipe) - 1
        /\ pipe[1].kind = "data"
        /\ \A i \in 1..Len(pipe') : pipe'[i] = pipe[i + 1]
    BY <2>1, ParsesEffect
  <2>3. cancel = "no" /\ ~cut /\ wire \in {"open", "eof"}
    BY <2>1, <2>2
  <2>4. CASE wire = "open"
    BY <2>1, <2>2, <2>3, <2>4
  <2>5. CASE wire = "eof"
    <3>1. Len(pipe) # 1
      BY <2>2, <2>3, <2>1, <2>5
    <3>2. /\ server = "done"
          /\ made + 1 = handed + Len(pipe)
          /\ handed \in Nat /\ made \in Nat
      BY <2>1, <2>3, <2>5
    <3>3. server' = "done" /\ made' + 1 = handed' + Len(pipe') /\ Len(pipe') # 0
      BY ONLY <3>1, <3>2, <2>1, <2>2
    <3>4. ASSUME NEW i \in 1..Len(pipe')
          PROVE  pipe'[i].kind = "end" <=> i = Len(pipe')
      <4>1. i + 1 \in 1..Len(pipe) /\ (i + 1 = Len(pipe) <=> i = Len(pipe'))
        BY <2>2
      <4>2. QED
        BY <4>1, <2>1, <2>2, <2>3, <2>5
    <3>5. QED
      BY <3>3, <3>4, <2>1, <2>5
  <2>6. QED
    BY <2>3, <2>4, <2>5
<1>10. ASSUME NEW kind \in {"error", "end"}, ReadsLast(kind) PROVE WholeInv'
  BY <1>10 DEF ReadsLast, vars, clientVars, consumerVars, serverVars
<1>11. CASE ReadsEof
  BY <1>11 DEF ReadsEof, vars, clientVars, consumerVars, serverVars
<1>12. CASE ReadFails
  BY <1>12 DEF ReadFails, vars, clientVars, consumerVars, serverVars
<1>13. CASE ReaderCancelled
  BY <1>13 DEF ReaderCancelled, vars, clientVars, consumerVars, serverVars
<1>14. CASE ServerAccepts
  BY <1>14, EmptySeq DEF ServerAccepts, vars, clientVars, consumerVars, serverVars
<1>15. CASE ServerRefuses
  BY <1>15 DEF ServerRefuses, vars, clientVars, consumerVars, serverVars
<1>16. CASE ServerRejects
  BY <1>16, SendsEffect, LenProperties DEF ServerRejects, vars, clientVars, consumerVars, serverVars
<1>17. CASE ServerEnds
  BY <1>17, SendsEffect, LenProperties DEF ServerEnds, vars, clientVars, consumerVars, serverVars
<1>18. CASE ServerDrops
  BY <1>18 DEF ServerDrops, vars, clientVars, consumerVars, serverVars
<1>19. CASE ServerStreamEnds
  BY <1>19 DEF ServerStreamEnds, vars, clientVars, consumerVars, serverVars
<1>20. ASSUME NEW kind \in {"data", "error"}, ServerYields(kind) PROVE WholeInv'
  BY <1>20, SendsEffect, LenProperties DEF ServerYields, vars, clientVars, consumerVars, serverVars
<1>21. ASSUME NEW how \in {"broken", "eof"}, NetworkCuts(how) PROVE WholeInv'
  BY <1>21 DEF NetworkCuts, vars, clientVars, consumerVars, serverVars
<1>22. CASE Finished \/ UNCHANGED vars
  BY <1>22 DEF Finished, vars, clientVars, consumerVars, serverVars
<1>23. QED
  BY <1>1, <1>2, <1>3, <1>4, <1>5, <1>6, <1>7, <1>8, <1>9, <1>10, <1>11,
     <1>12, <1>13, <1>14, <1>15, <1>16, <1>17, <1>18, <1>19, <1>20, <1>21,
     <1>22 DEF Next, ConsumerStep, ClientStep, ServerStep, StreamStep

LEMMA ExitInvNext ==
    TypeOK /\ IInv /\ [Next]_vars => ExitInv'
<1> SUFFICES ASSUME TypeOK, IInv, [Next]_vars, (cancel = "no" /\ ~cut)'
             PROVE  ExitInv'
  BY DEF ExitInv
<1> USE DEF IInv, GenInv, WireInv, WholeInv, ExitInv, InLoop, TypeOK
<1>1. CASE ConsumerNext
  BY <1>1 DEF ConsumerNext, Pull, Running, vars, clientVars, consumerVars, serverVars
<1>2. CASE ConsumerReturn
  BY <1>2 DEF ConsumerReturn, vars, clientVars, consumerVars, serverVars
<1>3. CASE ImportResolves
  BY <1>3 DEF ImportResolves, Pull, vars, clientVars, consumerVars, serverVars
<1>4. CASE ImportFails
  BY <1>4 DEF ImportFails, vars, clientVars, consumerVars, serverVars
<1>5. CASE ReturnReaches
  BY <1>5 DEF ReturnReaches, vars, clientVars, consumerVars, serverVars
<1>6. CASE ReturnResolves
  BY <1>6 DEF ReturnResolves, vars, clientVars, consumerVars, serverVars
<1>7. CASE FetchResolves
  BY <1>7 DEF FetchResolves, vars, clientVars, consumerVars, serverVars
<1>8. CASE FetchFails
  BY <1>8 DEF FetchFails, vars, clientVars, consumerVars, serverVars
<1>9. ASSUME NEW valid \in BOOLEAN, ReadsData(valid) PROVE ExitInv'
  BY <1>9, ReadsDataEffect DEF Parses, vars, clientVars, consumerVars, serverVars
<1>10. ASSUME NEW kind \in {"error", "end"}, ReadsLast(kind) PROVE ExitInv'
  BY <1>10, ParsesEffect DEF ReadsLast, Parses, vars, clientVars, consumerVars, serverVars
<1>11. CASE ReadsEof
  BY <1>11, EmptySeq DEF ReadsEof, vars, clientVars, consumerVars, serverVars
<1>12. CASE ReadFails
  BY <1>12 DEF ReadFails, vars, clientVars, consumerVars, serverVars
<1>13. CASE ReaderCancelled
  BY <1>13 DEF ReaderCancelled, vars, clientVars, consumerVars, serverVars
<1>14. CASE ServerAccepts
  BY <1>14 DEF ServerAccepts, vars, clientVars, consumerVars, serverVars
<1>15. CASE ServerRefuses
  BY <1>15 DEF ServerRefuses, vars, clientVars, consumerVars, serverVars
<1>16. CASE ServerRejects
  BY <1>16 DEF ServerRejects, vars, clientVars, consumerVars, serverVars
<1>17. CASE ServerEnds
  BY <1>17 DEF ServerEnds, vars, clientVars, consumerVars, serverVars
<1>18. CASE ServerDrops
  BY <1>18 DEF ServerDrops, vars, clientVars, consumerVars, serverVars
<1>19. CASE ServerStreamEnds
  BY <1>19 DEF ServerStreamEnds, vars, clientVars, consumerVars, serverVars
<1>20. ASSUME NEW kind \in {"data", "error"}, ServerYields(kind) PROVE ExitInv'
  BY <1>20 DEF ServerYields, vars, clientVars, consumerVars, serverVars
<1>21. ASSUME NEW how \in {"broken", "eof"}, NetworkCuts(how) PROVE ExitInv'
  BY <1>21 DEF NetworkCuts, vars, clientVars, consumerVars, serverVars
<1>22. CASE Finished \/ UNCHANGED vars
  BY <1>22 DEF Finished, vars, clientVars, consumerVars, serverVars
<1>23. QED
  BY <1>1, <1>2, <1>3, <1>4, <1>5, <1>6, <1>7, <1>8, <1>9, <1>10, <1>11,
     <1>12, <1>13, <1>14, <1>15, <1>16, <1>17, <1>18, <1>19, <1>20, <1>21,
     <1>22 DEF Next, ConsumerStep, ClientStep, ServerStep, StreamStep

LEMMA InvNext == TypeOK /\ IInv /\ [Next]_vars => IInv'
BY GenInvNext, WireInvNext, WholeInvNext, ExitInvNext DEF IInv

LEMMA Invariant == Spec => [](TypeOK /\ IInv)
BY TypeInit, TypeNext, InvInit, InvNext, PTL DEF Spec

-----------------------------------------------------------------------------
(* The safety properties.                                                  *)

\* A loop that ends by itself over a response nobody cut has had every item.
THEOREM CompletionIsWholeHolds == Spec => []CompletionIsWhole
<1>1. TypeOK /\ IInv => CompletionIsWhole
  BY DEF IInv, GenInv, ExitInv, CompletionIsWhole
<1>2. QED
  BY <1>1, Invariant, PTL

\* A return() that has resolved leaves neither generator nor request behind.
THEOREM ReturnReleasesHolds == Spec => []ReturnReleases
<1>1. TypeOK /\ IInv => ReturnReleases
  BY DEF IInv, GenInv, ReturnReleases
<1>2. QED
  BY <1>1, Invariant, PTL
-----------------------------------------------------------------------------
(* SseStream implements Subscription.                                      *)

\* The step of the abstract subscription a change of phase amounts to.
LEMMA AbsStep ==
    ASSUME NEW old, NEW new, Phase = old, Phase' = new,
           NEW n \in Nat, NEW m \in Nat,
           n = handed + (IF old = "ended" THEN 1 ELSE 0),
           m = handed' + (IF new = "ended" THEN 1 ELSE 0),
           \/ old = new /\ n = m
           \/ old = "unsent" /\ new = "open" /\ n = m
           \/ old \in {"open", "closing"} /\ new = old /\ m = n + 1
           \/ old = "open" /\ new = "closing" /\ n = m
           \/ old \in {"open", "closing"} /\ new = "ended" /\ m = n + 1
           \/ old # "ended" /\ new = "lost" /\ n = m
    PROVE  [Abs!AbsNext]_(Abs!absVars)
<1> DEFINE phase == [s \in {Call} |-> Phase]
           count == [s \in {Call} |-> handed + IF Phase = "ended" THEN 1 ELSE 0]
<1>1. /\ phase = [s \in {Call} |-> old] /\ phase' = [s \in {Call} |-> new]
      /\ count = [s \in {Call} |-> n] /\ count' = [s \in {Call} |-> m]
  OBVIOUS
<1>2. CASE old = new /\ n = m
  BY <1>1, <1>2 DEF Abs!absVars
<1>3. CASE old = "unsent" /\ new = "open" /\ n = m
  <2>1. Abs!Open(Call)
    BY <1>1, <1>3 DEF Abs!Open
  <2>2. QED
    BY <2>1 DEF Abs!AbsNext
<1>4. CASE old \in {"open", "closing"} /\ new = old /\ m = n + 1
  <2>1. Abs!Frame(Call)
    BY <1>1, <1>4 DEF Abs!Frame
  <2>2. QED
    BY <2>1 DEF Abs!AbsNext
<1>5. CASE old = "open" /\ new = "closing" /\ n = m
  <2>1. Abs!Cancel(Call)
    BY <1>1, <1>5 DEF Abs!Cancel
  <2>2. QED
    BY <2>1 DEF Abs!AbsNext
<1>6. CASE old \in {"open", "closing"} /\ new = "ended" /\ m = n + 1
  <2>1. Abs!End(Call)
    BY <1>1, <1>6 DEF Abs!End
  <2>2. QED
    BY <2>1 DEF Abs!AbsNext
<1>7. CASE old # "ended" /\ new = "lost" /\ n = m
  <2>1. Abs!Sever
    BY <1>1, <1>7 DEF Abs!Sever
  <2>2. QED
    BY <2>1 DEF Abs!AbsNext
<1>8. QED
  BY <1>2, <1>3, <1>4, <1>5, <1>6, <1>7

\* Steps that end consume's loop without a closing frame.
LEMMA AbsLost ==
    ASSUME TypeOK, exit = "none", exit' \in {"eof", "failed", "returned"}, handed' = handed
    PROVE  [Abs!AbsNext]_(Abs!absVars)
<1>1. Phase # "ended" /\ Phase' = "lost"
  BY DEF Phase
<1>2. QED
  BY <1>1, AbsStep DEF TypeOK

\* Steps that neither hand an item over nor change the phase.
LEMMA AbsStutter ==
    ASSUME TypeOK, handed' = handed, Phase' = Phase
    PROVE  [Abs!AbsNext]_(Abs!absVars)
<1>1. handed + (IF Phase = "ended" THEN 1 ELSE 0) \in Nat
  BY DEF TypeOK
<1>2. QED
  BY <1>1, AbsStep

LEMMA RefinesInit == Init => Abs!AbsInit
<1> SUFFICES ASSUME Init PROVE Abs!AbsInit
  OBVIOUS
<1>1. Phase = "unsent" /\ handed = 0
  BY DEF Init, Phase
<1>2. QED
  BY <1>1 DEF Abs!AbsInit

LEMMA RefinesNext == TypeOK /\ IInv /\ [Next]_vars => [Abs!AbsNext]_(Abs!absVars)
<1> SUFFICES ASSUME TypeOK, GenInv, [Next]_vars PROVE [Abs!AbsNext]_(Abs!absVars)
  BY DEF IInv
<1>1. CASE ConsumerNext
  <2>1. cancel = "no" /\ cancel' = cancel /\ next = "idle" /\ next' = "pending"
        /\ exit' = exit /\ handed' = handed
        /\ gen \in {"start", "yielded", "closed"}
    BY <1>1 DEF ConsumerNext, Running, Pull, GenInv, TypeOK
  <2>2. CASE gen = "start"
    <3>1. exit = "none"
      BY <2>2 DEF GenInv, InLoop
    <3>2. Phase = "unsent" /\ Phase' = "open"
      BY <2>1, <2>2, <3>1 DEF Phase
    <3>3. QED
      BY <2>1, <3>2, AbsStep DEF TypeOK
  <2>3. CASE gen # "start"
    <3>1. gen' # "start"
      BY <1>1, <2>1, <2>3 DEF ConsumerNext, Pull, GenInv
    <3>2. Phase' = Phase
      BY <2>1, <2>3, <3>1 DEF Phase
    <3>3. QED
      BY <2>1, <3>2, AbsStutter
  <2>4. QED
    BY <2>2, <2>3
<1>2. CASE ConsumerReturn
  <2>1. cancel = "no" /\ cancel' = "asked"
        /\ UNCHANGED <<exit, gen, next, handed>>
    BY <1>2 DEF ConsumerReturn, Running
  <2>2. CASE Phase = "open"
    <3>1. Phase' = "closing"
      BY <2>1, <2>2 DEF Phase
    <3>2. QED
      BY <2>1, <2>2, <3>1, AbsStep DEF TypeOK
  <2>3. CASE Phase # "open"
    <3>1. Phase' = Phase
      BY <2>1, <2>3 DEF Phase
    <3>2. QED
      BY <2>1, <3>1, AbsStutter
  <2>4. QED
    BY <2>2, <2>3
<1>3. CASE ImportResolves
  <2>1. gen = "start" /\ next = "pending" /\ gen' # "start"
        /\ UNCHANGED <<exit, next, cancel, handed>>
    BY <1>3 DEF ImportResolves, Pull, GenInv, consumerVars
  <2>2. Phase' = Phase
    BY <2>1 DEF Phase
  <2>3. QED
    BY <2>1, <2>2, AbsStutter
<1>4. CASE ImportFails
  BY <1>4, AbsLost DEF ImportFails, GenInv, InLoop
<1>5. CASE ReturnReaches
  BY <1>5, AbsLost DEF ReturnReaches, GenInv, InLoop, consumerVars
<1>6. CASE ReturnResolves
  <2>1. exit # "none" /\ exit' = exit /\ handed' = handed
    BY <1>6 DEF ReturnResolves, GenInv, InLoop
  <2>2. Phase' = Phase
    BY <2>1 DEF Phase
  <2>3. QED
    BY <2>1, <2>2, AbsStutter
<1>7. CASE FetchResolves
  <2>1. gen # "start" /\ gen' # "start" /\ UNCHANGED <<exit, cancel, handed>>
    BY <1>7 DEF FetchResolves, consumerVars
  <2>2. Phase' = Phase
    BY <2>1 DEF Phase
  <2>3. QED
    BY <2>1, <2>2, AbsStutter
<1>8. CASE FetchFails
  BY <1>8, AbsLost DEF FetchFails, GenInv, InLoop
<1>9. ASSUME NEW valid \in BOOLEAN, ReadsData(valid)
      PROVE  [Abs!AbsNext]_(Abs!absVars)
  <2>1. /\ gen = "reading" /\ gen' = "yielded" /\ handed' = handed + 1
        /\ UNCHANGED <<cancel, exit>>
    BY <1>9, ReadsDataEffect DEF Parses
  <2>2. exit = "none"
    BY <2>1 DEF GenInv, InLoop
  <2>3. cancel # "returned"
    BY <2>1 DEF GenInv
  <2>4. Phase \in {"open", "closing"} /\ Phase' = Phase
    BY <2>1, <2>2, <2>3 DEF Phase
  <2>5. QED
    BY <2>1, <2>4, AbsStep DEF TypeOK
<1>10. ASSUME NEW kind \in {"error", "end"}, ReadsLast(kind)
       PROVE  [Abs!AbsNext]_(Abs!absVars)
  <2>1. gen = "reading" /\ exit' = kind /\ handed' = handed
    BY <1>10 DEF ReadsLast, Parses, consumerVars
  <2>2. exit = "none"
    BY <2>1 DEF GenInv, InLoop
  <2>3. Phase \in {"open", "closing"} /\ Phase' = "ended"
    BY <2>1, <2>2 DEF Phase
  <2>4. QED
    BY <2>1, <2>3, AbsStep DEF TypeOK
<1>11. CASE ReadsEof
  BY <1>11, AbsLost DEF ReadsEof, GenInv, InLoop, consumerVars
<1>12. CASE ReadFails
  BY <1>12, AbsLost DEF ReadFails, GenInv, InLoop, consumerVars
<1>13. CASE ReaderCancelled
  <2>1. exit # "none" /\ exit' = exit /\ handed' = handed
    BY <1>13 DEF ReaderCancelled, GenInv, InLoop
  <2>2. Phase' = Phase
    BY <2>1 DEF Phase
  <2>3. QED
    BY <2>1, <2>2, AbsStutter
<1>14. CASE UNCHANGED clientVars
  <2>1. Phase' = Phase /\ handed' = handed
    BY <1>14 DEF Phase, clientVars, consumerVars
  <2>2. QED
    BY <2>1, AbsStutter
<1>15. ServerStep \/ StreamStep \/ (\E how \in {"broken", "eof"} : NetworkCuts(how))
           \/ Finished \/ UNCHANGED vars => UNCHANGED clientVars
  BY DEF ServerStep, StreamStep, NetworkCuts, Finished, ServerAccepts, ServerRefuses,
         ServerRejects, ServerEnds, ServerDrops, ServerStreamEnds, ServerYields, vars
<1>16. QED
  BY <1>1, <1>2, <1>3, <1>4, <1>5, <1>6, <1>7, <1>8, <1>9, <1>10, <1>11, <1>12,
     <1>13, <1>14, <1>15 DEF Next, ConsumerStep, ClientStep

\* The SSE stream keeps the promise of Subscription, whatever the client's
\* set-up and however the response ends.
THEOREM RefinesSubscription == Spec => ImplementsSubscription
<1>1. Spec => Abs!AbsInit /\ [][Abs!AbsNext]_(Abs!absVars)
  BY RefinesInit, RefinesNext, Invariant, PTL DEF Spec
<1>2. QED
  BY <1>1 DEF ImplementsSubscription, Abs!AbsSafety
=============================================================================
