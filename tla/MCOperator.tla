----------------------------- MODULE MCOperator -----------------------------
(*****************************************************************************)
(* Small instances of four protocols, each on its own:                       *)
(*   commands   of the operator's page (OperatorRetry, one job, a web and a  *)
(*              local request),                                              *)
(*   mirror     of the rows this page shows (RetryMirror, two jobs),         *)
(*   articles   what two lanes do with the jobs they claimed (ArticleWork),  *)
(*   capture    of a frozen news snapshot by two commands (NewsCapture).     *)
(* A behaviour is one of one of them: scene says which, and the variables of *)
(* the others rest.                                                          *)
(*****************************************************************************)
EXTENDS OperatorRetry, ArticleWork, NewsCapture

CONSTANTS j1, w1, w2, c1, Listable, Versions, Unlisted, NoList, MUTATIONS

VARIABLES scene, listed, rows, acked, saved, posting, quiet

MCJobOf == [r \in Requests |-> j1]
MCModeOf == [r \in Requests |-> CASE r = w1 -> "IMMEDIATE"
                                  [] r = w2 -> "CUSTOM_TIME"
                                  [] OTHER -> "DELAY"]

Mirror == INSTANCE RetryMirror WITH Jobs <- Listable, NoRow <- Unlisted, mirror <- rows
mirrorVars == <<listed, rows, acked, saved, posting, quiet>>

\* One article with the jobs of two kinds, or two articles and no mishap.
BothArticles == {"annotation", "impact"} \X {1, 2}
WithImpact == {"annotation", "impact"} \X {1}
WithTitle == {"annotation", "title"} \X {1}
MCQueues == {BothArticles, WithImpact, WithTitle}
MCMishaps == [q \in MCQueues |->
  CASE q = BothArticles -> 0 [] q = WithImpact -> 2 [] q = WithTitle -> 3]
\* The second row is as large as a part may be.
FourRows == <<1, 2, 1, 1>>

OperatorInit ==
  /\ Init /\ Mirror!Init /\ ArticleInit /\ CaptureInit
  /\ scene \in {"commands", "mirror", "articles", "capture"}
  /\ scene = "articles" \/ queued = BothArticles
OperatorNext ==
  \/ scene = "commands" /\ Next /\ UNCHANGED <<scene, mirrorVars, articleVars, captureVars>>
  \/ scene = "mirror" /\ Mirror!Next /\ UNCHANGED <<scene, vars, articleVars, captureVars>>
  \/ scene = "articles" /\ ArticleNext /\ UNCHANGED <<scene, vars, mirrorVars, captureVars>>
  \/ scene = "capture" /\ CaptureNext /\ UNCHANGED <<scene, vars, mirrorVars, articleVars>>

\* The fairness of either component, while it is the one that moves.
OperatorFairSpec ==
  /\ OperatorInit /\ [][OperatorNext]_<<scene, vars, mirrorVars, articleVars, captureVars>>
  /\ WF_vars(scene = "commands" /\ Bridge)
  /\ WF_vars(scene = "commands" /\ LateApply)
  /\ WF_vars(scene = "commands" /\ Tick)
  /\ \A r \in LocalRequests : WF_vars(scene = "commands" /\ LocalCall(r))
  /\ WF_mirrorVars(scene = "mirror" /\ Mirror!ReadList)
  /\ SF_mirrorVars(scene = "mirror" /\ Mirror!Post(TRUE))

\* Every command is answered, though a lease or an answer was lost.
CommandIsAnswered == scene = "commands" => CommandAnswered
\* A list neither side had settled on before is mirrored row for row.
NewListMirrored == scene = "mirror" => Mirror!NewListMirrored
\* Both of it, whatever was lost.
OperatorIsServed == CommandIsAnswered /\ NewListMirrored
=============================================================================
