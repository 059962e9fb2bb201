-------------------------- MODULE PlatformSettings --------------------------
(***************************************************************************)
(* config-service: the feature flags and the windows of maintenance.  The  *)
(* rows of one flag differ by their environment; null means all of them.   *)
(***************************************************************************)
EXTENDS RequestLife, Naturals

CONSTANT MaxTime    \* bound: the instants a window may start and end at

VARIABLES
    flags,          \* the rows of the table FeatureFlag with one key
    windows         \* the rows of the table MaintenanceWindow

settingVars == <<flags, windows>>

\* Ids are fresh: a row has the id of the request that made it.
AllEnvironments == "null"
Environments == {AllEnvironments, "", "production"}
Times == 1..MaxTime

SettingType ==
    /\ flags   \subseteq [id : Requests, environment : Environments, enabled : BOOLEAN]
    /\ windows \subseteq [id : Requests, startAt : Times, endAt : Times,
                          isActive : BOOLEAN]

SettingInit == flags = {} /\ windows = {}

-----------------------------------------------------------------------------
(* SetFeatureFlagUseCase.                                                  *)

Found(environment) == {f \in flags : f.environment = environment}

\* findByKey: one of the rows, if there is any.
ReadFlag(r, environment, enabled) ==
    /\ \/ Found(environment) = {}
          /\ AskedAndRead(r, "set", environment, enabled, {})
       \/ \E f \in Found(environment) :
             AskedAndRead(r, "set", environment, enabled, {f})
    /\ UNCHANGED settingVars

\* The flag as it is to be saved: the one that was read, or a new one.
Snapshot(r) ==
    IF req[r].seen = {}
    THEN [id |-> r, environment |-> req[r].on, enabled |-> req[r].ask]
    ELSE [CHOOSE f \in req[r].seen : TRUE EXCEPT !.enabled = req[r].ask]

\* The key of the upsert has no null: it looks for the environment "" instead.
UpsertKey(environment) ==
    IF environment = AllEnvironments THEN "" ELSE environment

\* The upsert: update the row that is found, or else insert one, which fails
\* when its id is there already.  PostgreSQL lets rows with null coexist.
Upsert(snap) ==
    LET found == Found(UpsertKey(snap.environment)) IN
    IF found # {}
    THEN (flags \ found) \cup {[f EXCEPT !.enabled = snap.enabled] : f \in found}
    ELSE IF \E f \in flags : f.id = snap.id THEN flags
    ELSE flags \cup {snap}

SetFlag(r) ==
    /\ Doing(r, "set")
    /\ flags' = Upsert(Snapshot(r))
    /\ Done(r)
    /\ UNCHANGED windows

(* FeatureFlagController.deleteFlag: look for the id, then delete the row.  *)
ReadFlagId(r, f) ==
    /\ f \in flags
    /\ AskedAndRead(r, "delete flag", f.environment, "none", {f})
    /\ UNCHANGED settingVars

DeleteFlag(r) ==
    /\ Doing(r, "delete flag")
    /\ flags' = {f \in flags : \A g \in req[r].seen : f.id # g.id}
    /\ Done(r)
    /\ UNCHANGED windows

-----------------------------------------------------------------------------
(* ScheduleMaintenanceWindowUseCase and cancelWindow.                      *)

\* Fault: only a window that starts within the other one is seen.
OverlapsAtStart(w, startAt, endAt) == startAt <= w.startAt /\ w.startAt < endAt

Overlaps(w, startAt, endAt) == w.startAt < endAt /\ w.endAt > startAt

\* findOverlapping found nothing.
CheckWindow(r, startAt, endAt) ==
    /\ startAt < endAt
    /\ \A w \in windows : w.isActive => ~Overlaps(w, startAt, endAt)
    /\ AskedAndRead(r, "schedule", "windows", <<startAt, endAt>>, "none")
    /\ UNCHANGED settingVars

ScheduleWindow(r) ==
    /\ Doing(r, "schedule")
    /\ windows' = windows \cup {[id |-> r, startAt |-> req[r].ask[1],
                                 endAt |-> req[r].ask[2], isActive |-> TRUE]}
    /\ Done(r)
    /\ UNCHANGED flags

ReadWindow(r, w) ==
    /\ w \in windows
    /\ AskedAndRead(r, "cancel", w.id, "none", w)
    /\ UNCHANGED settingVars

\* Nothing but isActive is written, and no window is ever deleted.
CancelWindow(r) ==
    /\ Doing(r, "cancel")
    /\ windows' = {IF w.id = req[r].on THEN [w EXCEPT !.isActive = FALSE] ELSE w :
                     w \in windows}
    /\ Done(r)
    /\ UNCHANGED flags

SettingStep(r) ==
    \/ \E environment \in Environments, enabled \in BOOLEAN :
          ReadFlag(r, environment, enabled)
    \/ \E f \in flags : ReadFlagId(r, f)
    \/ \E startAt, endAt \in Times : CheckWindow(r, startAt, endAt)
    \/ \E w \in windows : ReadWindow(r, w)
    \/ SetFlag(r) \/ DeleteFlag(r) \/ ScheduleWindow(r) \/ CancelWindow(r)

-----------------------------------------------------------------------------

(* One row per flag and environment, except for null, when the requests     *)
(* that set the flag for the first time overlapped.                         *)
FlagsUnique ==
    \A f, g \in flags : f # g /\ f.environment = g.environment =>
        /\ f.environment = AllEnvironments
        /\ req[f.id].overlap \/ req[g.id].overlap

(* Two active windows have no time in common, unless they were scheduled at *)
(* the same time.  One may start when the other ends.                       *)
WindowsApart ==
    \A v, w \in windows :
        (v # w /\ v.isActive /\ w.isActive /\ v.startAt \in w.startAt..(w.endAt - 1))
            => req[v.id].overlap /\ req[w.id].overlap

(* A row changes only by a request for its environment that asked for what  *)
(* it then holds; setting a flag for all environments may hit the row of "" *)
(* instead.  A row for all environments never changes: it takes a deletion. *)
FlagsKept ==
    \A f \in flags, g \in flags' : f.id = g.id /\ f # g =>
        /\ f.environment = g.environment /\ f.environment # AllEnvironments
        /\ \E r \in Requests :
              /\ Ends(r) /\ req[r].kind = "set" /\ req[r].ask = g.enabled
              /\ UpsertKey(req[r].on) = f.environment

(* A window that was cancelled stays so.                                   *)
CancelledStays ==
    \A v \in windows, w \in windows' : v.id = w.id /\ w.isActive => v.isActive

=============================================================================
