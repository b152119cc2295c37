---------------------------- MODULE Credentials ----------------------------
(***************************************************************************)
(* The passwords of the lab: scripts/credentials.py and the                *)
(* rotate-credentials target, against the containers that load .env when   *)
(* they are created and the two volumes that keep a password of their own. *)
(* A rotation changes Grafana, then ClickHouse, then .env, then recreates  *)
(* the containers; any step may fail before or after it took effect, and   *)
(* the completed steps are undone by best effort.  Meanwhile containers    *)
(* end, volumes are deleted, and other commands recreate Flink alone.      *)
(*                                                                         *)
(* Passwords are numbered by the call of _new_environment that drew them;  *)
(* 0 stands for none.  User names never change and are left out.           *)
(***************************************************************************)
EXTENDS Integers

CONSTANT MaxPasswords  \* bound: calls of _new_environment

ASSUME MaxPasswordsAssumption == MaxPasswords \in Nat \ {0}

SecretKeys == {"clickhouse", "observer", "grafana"}

\* Passwords that survive their container: ClickHouse's SQL user and Grafana's
\* administrator.  The password of the main user is read at every start.
Persisted == {"observer", "grafana"}

Rotatable == {"clickhouse", "grafana"}
Containers == Rotatable \cup {"flink"}

VARIABLES
    drawn,      \* passwords drawn so far
    env,        \* the secrets of .env; all 0 if there is no file
    running,    \* running containers; flink is jobmanager and taskmanager
    loaded,     \* the secrets each container was created with
    stored,     \* the passwords in force in the volumes, 0 without a volume
    \* make and credentials.py in the operator's terminal
    pc,         \* the next step, or "idle"
    rotating,   \* whether rotate-credentials runs, and not make up
    found,      \* the containers it found
    current,    \* _current_credentials()
    \* history variables, read by properties only
    agreed,     \* the lab agreed with .env when the rotation began
    spoiled     \* a step failed after its effect, an undo failed, or a kill

labVars == <<drawn, env, running, loaded, stored>>
terminalVars == <<pc, rotating, found, current>>
historyVars == <<agreed, spoiled>>
vars == <<labVars, terminalVars, historyVars>>

None == [k \in SecretKeys |-> 0]
\* mutant: GRAFANA_ADMIN_PASSWORD is missing in SECRET_KEYS
AllButGrafana == [k \in SecretKeys |-> IF k = "grafana" THEN env[k] ELSE drawn + 1]
\* _new_environment
Fresh == [k \in SecretKeys |-> drawn + 1]
Complete == \A k \in SecretKeys : env[k] # 0

\* No volume keeps, and no container was started with, a password that .env
\* does not have.
Agreement ==
    /\ \A k \in Persisted : stored[k] \in {0, env[k]}
    /\ \A c \in running : loaded[c] = env

\* A new checkout, with or without the volumes of an earlier one.
Init ==
    /\ drawn \in {0, 1}
    /\ env = None /\ running = {} /\ loaded = [c \in Containers |-> None]
    /\ stored = [k \in Persisted |-> drawn]
    /\ pc = "idle" /\ rotating = FALSE /\ found = {} /\ current = None
    /\ agreed = FALSE /\ spoiled = FALSE

-----------------------------------------------------------------------------
(* The lab without a rotation.                                             *)

\* generate_credentials: only where .env is incomplete and nothing runs.
Generate ==
    /\ pc = "idle" /\ ~Complete /\ running \cap Rotatable = {}
    /\ drawn < MaxPasswords
    /\ drawn' = drawn + 1 /\ env' = Fresh
    /\ UNCHANGED <<running, loaded, stored, terminalVars, historyVars>>

\* make up; Compose refuses to start without the passwords.
Up ==
    /\ pc = "idle" /\ Complete
    /\ pc' = "up clickhouse" /\ rotating' = FALSE
    /\ UNCHANGED <<labVars, found, current, historyVars>>

\* A container ends by itself or is stopped; there is no restart policy.
Ends(c) ==
    /\ c \in running
    /\ running' = running \ {c}
    /\ UNCHANGED <<drawn, env, loaded, stored, terminalVars, historyVars>>

\* make reset deletes the volumes; make stop is Ends for every container.
Reset ==
    /\ pc = "idle"
    /\ running' = {} /\ stored' = [k \in Persisted |-> 0]
    /\ UNCHANGED <<drawn, env, loaded, terminalVars, historyVars>>

-----------------------------------------------------------------------------
(* rotate_credentials.                                                     *)

\* The container ids are looked up first.
BeginRotation ==
    /\ pc = "idle" /\ drawn < MaxPasswords
    /\ pc' = "read" /\ rotating' = TRUE /\ found' = running \cap Rotatable
    /\ agreed' = Agreement /\ spoiled' = FALSE
    /\ UNCHANGED <<labVars, current>>

\* mutant: what .env says, whatever the containers were started with
OnlyTheFile(containers) == env

\* The environment of a running container goes before .env.
CurrentCredentials(containers) ==
    [k \in SecretKeys |->
        CASE k = "clickhouse" /\ "clickhouse" \in containers -> loaded["clickhouse"][k]
          [] k # "clickhouse" /\ "grafana" \in containers -> loaded["grafana"][k]
          [] OTHER -> env[k]]

\* mutant: the observer is left to the recreated container
NeverAlter(containers) == "write"
AfterGrafana(containers) == IF "clickhouse" \in containers THEN "alter" ELSE "write"

\* docker exec reads the containers, and the new passwords are drawn.
ReadCurrent ==
    /\ pc = "read" /\ found \subseteq running
    /\ current' = CurrentCredentials(found)
    /\ drawn' = drawn + 1
    /\ pc' = IF "grafana" \in found THEN "reset" ELSE AfterGrafana(found)
    /\ UNCHANGED <<env, running, loaded, stored, rotating, found, historyVars>>

\* One docker exec that sets a stored password.  It may fail, and it may fail
\* although the password was set.
Exec(c, k, password, next, onError) ==
    \/ /\ c \in running
       /\ stored' = [stored EXCEPT ![k] = password]
       /\ \/ pc' = next /\ UNCHANGED spoiled
          \/ pc' = onError /\ spoiled' = TRUE
    \/ pc' = onError /\ UNCHANGED <<stored, spoiled>>

\* Undoing is best effort: the error is swallowed, and the password is lost.
Undo(c, k, next) ==
    \/ /\ c \in running
       /\ stored' = [stored EXCEPT ![k] = current[k]]
       /\ UNCHANGED spoiled
       /\ pc' = next
    \/ spoiled' = TRUE /\ UNCHANGED stored /\ pc' = next

ResetGrafana ==
    /\ pc = "reset"
    /\ Exec("grafana", "grafana", drawn, AfterGrafana(found), "idle")
    /\ UNCHANGED <<drawn, env, running, loaded, rotating, found, current, agreed>>

\* ALTER USER is sent as the main user.
CanLogIn == loaded["clickhouse"]["clickhouse"] = current["clickhouse"]

UndoCompleted(containers) == IF "grafana" \in containers THEN "undo grafana" ELSE "idle"

AlterObserver ==
    /\ pc = "alter"
    /\ \/ CanLogIn /\ Exec("clickhouse", "observer", drawn, "write", UndoCompleted(found))
       \/ /\ ~CanLogIn
          /\ pc' = UndoCompleted(found) /\ UNCHANGED <<stored, spoiled>>
    /\ UNCHANGED <<drawn, env, running, loaded, rotating, found, current, agreed>>

\* .env is replaced as a whole by os.replace, and make goes on to Compose.
WriteEnvironment ==
    /\ pc = "write"
    /\ env' = [k \in SecretKeys |-> drawn]
    /\ pc' = "up clickhouse"
    /\ UNCHANGED <<drawn, running, loaded, stored, rotating, found, current, historyVars>>

\* mutant: a failed write undoes Grafana only
UndoesGrafana(containers) == UndoCompleted(containers)
UndoesBoth(containers) ==
    IF "clickhouse" \in containers /\ current["observer"] # 0
    THEN "undo observer" ELSE UndoCompleted(containers)

WriteFails ==
    /\ pc = "write"
    /\ pc' = UndoesBoth(found)
    /\ UNCHANGED <<labVars, rotating, found, current, historyVars>>

UndoObserver ==
    /\ pc = "undo observer"
    /\ Undo("clickhouse", "observer", UndoCompleted(found))
    /\ UNCHANGED <<drawn, env, running, loaded, rotating, found, current, agreed>>

UndoGrafana ==
    /\ pc = "undo grafana"
    /\ Undo("grafana", "grafana", "idle")
    /\ UNCHANGED <<drawn, env, running, loaded, rotating, found, current, agreed>>

\* Anything else that fails ends the command where nothing has been changed,
\* or where make itself ends; Ctrl-C ends it anywhere, without an undo.
Aborts ==
    /\ pc # "idle"
    /\ pc' = "idle"
    /\ spoiled' = (spoiled \/ pc \notin {"read", "reset"})
    /\ UNCHANGED <<labVars, rotating, found, current, agreed>>

-----------------------------------------------------------------------------
(* docker compose up, in the order of depends_on.                          *)

Creates(c) ==
    /\ running' = running \cup {c}
    /\ loaded' = [loaded EXCEPT ![c] = env]

\* init-users.sh creates the observer in an empty volume, Grafana its
\* administrator; later starts leave both alone.
Initializes(k) == stored' = [stored EXCEPT ![k] = IF @ = 0 THEN env[k] ELSE @]

UpClickHouse ==
    /\ pc = "up clickhouse"
    /\ Creates("clickhouse") /\ Initializes("observer")
    /\ pc' = "up flink"
    /\ UNCHANGED <<drawn, env, rotating, found, current, historyVars>>

UpFlink ==
    /\ pc = "up flink"
    /\ Creates("flink")
    /\ pc' = "up grafana"
    /\ UNCHANGED <<drawn, env, stored, rotating, found, current, historyVars>>

\* rebuild_commands, from another command at any time: jobmanager and taskmanager
\* alone, with --no-deps.  They load what .env has by then, also what a rotation
\* has staged for ClickHouse but did not get to.
RebuildFlink ==
    /\ loaded["flink"] # None /\ Complete
    /\ Creates("flink")
    /\ UNCHANGED <<drawn, env, stored, terminalVars, historyVars>>

UpGrafana ==
    /\ pc = "up grafana"
    /\ Creates("grafana") /\ Initializes("grafana")
    /\ pc' = "idle"
    /\ UNCHANGED <<drawn, env, rotating, found, current, historyVars>>

-----------------------------------------------------------------------------
Rotation ==
    \/ BeginRotation \/ ReadCurrent \/ ResetGrafana \/ AlterObserver
    \/ WriteEnvironment \/ WriteFails \/ UndoObserver \/ UndoGrafana

Next ==
    \/ Generate \/ Up \/ Reset \/ \E c \in Containers : Ends(c)
    \/ Rotation \/ Aborts
    \/ UpClickHouse \/ UpFlink \/ UpGrafana \/ RebuildFlink

Spec == Init /\ [][Next]_vars

-----------------------------------------------------------------------------
(* Properties.                                                             *)

Passwords == 0 .. MaxPasswords
PCs == {"idle", "read", "reset", "alter", "write", "undo observer",
        "undo grafana", "up clickhouse", "up flink", "up grafana"}

\* Every variable has its type, .env has all secrets or none, and what is in
\* force was drawn before.
TypeOK ==
    /\ drawn \in Passwords
    /\ env \in [SecretKeys -> 0 .. drawn] /\ current \in [SecretKeys -> 0 .. drawn]
    /\ Complete \/ env = None
    /\ running \subseteq Containers
    /\ loaded \in [Containers -> [SecretKeys -> 0 .. drawn]]
    /\ stored \in [Persisted -> 0 .. drawn]
    /\ pc \in PCs /\ rotating \in BOOLEAN /\ found \subseteq Rotatable
    /\ agreed \in BOOLEAN /\ spoiled \in BOOLEAN

\* A rotation can always log in to ClickHouse, also after an earlier one that
\* ended between .env and the containers: the main user still has the password
\* its container was started with, whatever .env says by now.
CanAuthenticate == pc \in {"alter", "undo observer"} => CanLogIn

\* A failed rotation changes nothing: if the lab agreed with .env before, it
\* does so when credentials.py gives up, at whatever step, unless a step failed
\* after its effect or undoing failed as well.
FailureRestores ==
    [][pc # "idle" /\ pc' = "idle" /\ pc \notin {"up clickhouse", "up flink", "up grafana"}
          => (agreed /\ ~spoiled' => Agreement')]_vars

\* A rotation heals: once make rotate-credentials has found both services and
\* come to its end, the volumes, the containers and .env agree, whatever earlier
\* rotations left behind.
RotationHeals ==
    [][UpGrafana /\ rotating /\ found = Rotatable => Agreement']_vars
=============================================================================
