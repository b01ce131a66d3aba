------------------------------ MODULE RawCall ------------------------------
(***************************************************************************)
(* What a caller of wc_raw_extract may rely on: the call returns, and the  *)
(* answer is a function of the transcript.  RawBytes implements it.        *)
(***************************************************************************)
EXTENDS DiceExtract

VARIABLES
  rolls,    \* the argument
  verdict,  \* "idle" for want of a call, or "running" and then what the size_t returned stands for
  number    \* the 32 bytes of out[], read as one big-endian number

callVars == <<rolls, verdict, number>>

CallInit == rolls \in Transcripts /\ verdict \in {"idle", "running"} /\ number = 0

CallVerdict ==
  IF Len(rolls) < NeedEntries THEN "insufficient"
  ELSE IF RawRejected(rolls) THEN "rejected" ELSE "extracted"

CallReturn ==
  /\ verdict = "running"
  /\ verdict' = CallVerdict
  /\ number' = IF CallVerdict = "extracted" THEN RawExtract(rolls) ELSE 0
  /\ UNCHANGED rolls

CallSpec == CallInit /\ [][CallReturn]_callVars /\ WF_callVars(CallReturn)
=============================================================================
