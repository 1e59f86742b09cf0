---------------------------- MODULE StandbyConfig ----------------------------
(***************************************************************************)
(* The Actor Standby settings of an Actor and of one of its tasks          *)
(* (services/standby-config.ts), and the requests that edit them: a PUT    *)
(* merges its body over the settings it read and stores the result, whole, *)
(* when it gets to the record; a push turns Standby on inside the update.  *)
(* What the pool of standby runs goes by is taskStandbyConfig, made of     *)
(* both records when a request for a standby run arrives.                  *)
(*                                                                         *)
(* A body is a record with Unmentioned for the fields it leaves out; one   *)
(* with a field of the wrong type is refused before anything is read. The  *)
(* tenancy, the build tag and the memory constrain nothing else.           *)
(***************************************************************************)
EXTENDS Integers

CONSTANTS
    ConfigEditors,       \* PUT requests under way at once
    ActorBodies,        \* the actorStandby bodies of Actor requests
    TaskBodies,    \* and of task requests
    Unmentioned,
    NoSettings     \* a record without actorStandby, and what clears a task's

BooleanFields == {"isEnabled", "disableStandbyFieldsOverride"}
IntegerFields ==
    {"desiredRequestsPerActorRun", "maxRequestsPerActorRun", "idleTimeoutSecs"}
Fields == BooleanFields \cup IntegerFields

ActorOnlyFields == BooleanFields

\* The type check of the merge, on what the bodies hold.
ASSUME BodiesAssumption ==
    /\ \A b \in ActorBodies : \A f \in Fields :
          b[f] # Unmentioned => b[f] \in (IF f \in BooleanFields THEN BOOLEAN ELSE Int)
    /\ \A b \in TaskBodies : \A f \in Fields :
          b[f] # Unmentioned => f \notin ActorOnlyFields /\ b[f] \in Int

VARIABLES
    actorStandby,   \* of the Actor's record
    taskStandby,    \* of the task's
    edits           \* of each editor, the settings it is about to store

standbyConfigVars == <<actorStandby, taskStandby, edits>>

Nothing == [of |-> "none"]

STANDBY_DEFAULTS ==
    [f \in Fields |-> CASE f = "desiredRequestsPerActorRun" -> 3
                        [] f = "maxRequestsPerActorRun" -> 4
                        [] f = "idleTimeoutSecs" -> 300
                        [] OTHER -> FALSE]

MIN_IDLE_TIMEOUT_SECS == 5

Over(settings, base) == [f \in Fields |-> IF f \in DOMAIN settings THEN settings[f] ELSE base[f]]

\* The rules of mergeStandbyUpdate on the merged settings.
Valid(s) ==
    /\ s["desiredRequestsPerActorRun"] >= 1
    /\ s["maxRequestsPerActorRun"] >= 1
    /\ s["maxRequestsPerActorRun"] >= s["desiredRequestsPerActorRun"]
    /\ s["idleTimeoutSecs"] >= MIN_IDLE_TIMEOUT_SECS

\* mergeStandbyUpdate: the body over the current settings, those over the defaults.
Merged(body, current) ==
    LET base == IF current = NoSettings THEN STANDBY_DEFAULTS ELSE Over(current, STANDBY_DEFAULTS)
    IN  [f \in Fields |-> IF body[f] # Unmentioned THEN body[f] ELSE base[f]]

\* Mutant: a task keeps only the fields its body mentions.
TaskFields_Mentioned(body, merged) ==
    [f \in {g \in Fields \ ActorOnlyFields : body[g] # Unmentioned} |-> merged[f]]

\* mergeTaskStandbyUpdate stores every field but the Actor's own, mentioned or not.
TaskFields(body, merged) == [f \in Fields \ ActorOnlyFields |-> merged[f]]

\* The config of the standby runs: the task's fields over the Actor's unless the Actor
\* forbids that, NoSettings while its Standby is off.
taskStandbyConfig ==
    IF actorStandby = NoSettings THEN NoSettings
    ELSE IF ~actorStandby["isEnabled"] THEN NoSettings
    ELSE IF actorStandby["disableStandbyFieldsOverride"] \/ taskStandby = NoSettings
         THEN actorStandby
    ELSE Over(taskStandby, actorStandby)

StandbyConfigInit ==
    /\ actorStandby = NoSettings
    /\ taskStandby = NoSettings
    /\ edits = [e \in ConfigEditors |-> Nothing]

\* PUT actors/:actorId: merged over the record as it was when the request came.
PutActor(e, body) ==
    /\ edits[e] = Nothing
    /\ Valid(Merged(body, actorStandby))
    /\ edits' = [edits EXCEPT ![e] = [of |-> "actor", settings |-> Merged(body, actorStandby)]]
    /\ UNCHANGED <<actorStandby, taskStandby>>

\* PUT actor-tasks/:actorTaskId, likewise,
PutTask(e, body) ==
    LET merged == Merged(body, taskStandby)
    IN  /\ edits[e] = Nothing
        /\ Valid(merged)
        /\ edits' = [edits EXCEPT ![e] = [of |-> "task", settings |-> TaskFields(body, merged)]]
        /\ UNCHANGED <<actorStandby, taskStandby>>

\* and with null, which clears them.
ClearTask(e) ==
    /\ edits[e] = Nothing
    /\ edits' = [edits EXCEPT ![e] = [of |-> "task", settings |-> NoSettings]]
    /\ UNCHANGED <<actorStandby, taskStandby>>

\* The update: whatever was stored meanwhile is replaced.
Stored(e) ==
    /\ \/ /\ edits[e].of = "actor"
          /\ actorStandby' = edits[e].settings
          /\ UNCHANGED taskStandby
       \/ /\ edits[e].of = "task"
          /\ taskStandby' = edits[e].settings
          /\ UNCHANGED actorStandby
    /\ edits' = [edits EXCEPT ![e] = Nothing]

EnablingBody == [f \in Fields |-> IF f = "isEnabled" THEN TRUE ELSE Unmentioned]

\* standbyEnabledBy, inside the update of a push of files with usesStandbyMode: it enables
\* Standby and never disables it.
PushEnables ==
    LET merged == Merged(EnablingBody, actorStandby)
    IN  /\ actorStandby # NoSettings => ~actorStandby["isEnabled"]
        /\ Valid(merged)
        /\ actorStandby' = merged
        /\ UNCHANGED <<taskStandby, edits>>

StandbyConfigNext ==
    \/ PushEnables
    \/ \E e \in ConfigEditors :
        \/ \E body \in ActorBodies : PutActor(e, body)
        \/ \E body \in TaskBodies : PutTask(e, body)
        \/ ClearTask(e) \/ Stored(e)

StandbyConfigSpec == StandbyConfigInit /\ [][StandbyConfigNext]_standbyConfigVars

-----------------------------------------------------------------------------
\* Whatever edits of the Actor and of the task overlap, the config the pool of standby runs
\* works with obeys the rules: at least one request per run, never more desired than allowed
\* (services/standby.ts starts runs by the one number and fills them by the other).
EffectiveConfigValid == taskStandbyConfig # NoSettings => Valid(taskStandbyConfig)

=============================================================================
