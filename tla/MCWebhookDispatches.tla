------------------------ MODULE MCWebhookDispatches ------------------------
(***************************************************************************)
(* WebhookDispatches with two webhooks: one of the Actor, for runs created *)
(* and runs that fail, and an ad-hoc one that waits for this run to        *)
(* succeed.                                                                *)
(***************************************************************************)
EXTENDS WebhookDispatches, TLC

CONSTANTS ofActor, ofRun

MCWebhooks == {ofActor, ofRun}
MCSubscribed == (ofActor :> {"FAILED", "RESURRECTED"}) @@ (ofRun :> {"SUCCEEDED"})
MCAdHoc == {ofRun}
MCDoNotRetry == {ofRun}
MCTested == {ofRun}
MCEdited == {ofRun}

=============================================================================
