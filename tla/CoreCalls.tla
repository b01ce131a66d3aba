----------------------------- MODULE CoreCalls -----------------------------
(***************************************************************************)
(* The functions of wallet_core.cpp that loop over state of their own, as  *)
(* loop() calls them: one task, one call at a time, and a poll of the      *)
(* keyboard only when no other call is under way.                          *)
(***************************************************************************)
EXTENDS QuizPositions, RawBytes, KeyEdges

callsVars == <<vars, rawVars, keysVars>>

CallsInit ==
  \/ Init /\ RawIdle /\ KeysInit
  \/ QuizIdle /\ RawInit /\ KeysInit

OneQuiz == Next /\ UNCHANGED <<rawVars, keysVars>>
OneRaw == RawNext /\ UNCHANGED <<vars, keysVars>>
OnePoll == QuizIdle /\ RawIdle /\ KeysNext /\ UNCHANGED <<vars, rawVars>>

CallsNext == OneQuiz \/ OneRaw \/ OnePoll

\* Nothing waits inside the two functions; nobody has to press a key.
CallsSpec ==
  CallsInit /\ [][CallsNext]_callsVars /\ WF_callsVars(OneQuiz) /\ WF_callsVars(OneRaw)

-----------------------------------------------------------------------------
\* Locals, saved edges and the word being typed keep their types, and none of
\* the arrays pos[], acc[33], quizBuf[12] is written past its end.
TypesOK == TypeOK /\ RawTypeOK /\ AccFits /\ KeysTypeOK
=============================================================================
