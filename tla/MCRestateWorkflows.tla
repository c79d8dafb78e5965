------------------------ MODULE MCRestateWorkflows --------------------------
(* Instances of RestateWorkflows for TLC.                                  *)
EXTENDS RestateWorkflows, TLC

\* Final answers, with and without a content, and replies that call tools.
SomeReplies ==
    {<<"text">>, <<"gated", "plain">>, <<"text", "human">>}
=============================================================================
