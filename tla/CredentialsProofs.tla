-------------------------- MODULE CredentialsProofs --------------------------
(* Proofs of the properties of credential rotation. *)
EXTENDS Credentials, TLAPS

-----------------------------------------------------------------------------
(* The inductive invariant.                                                *)

Ups == {"up clickhouse", "up flink", "up grafana"}
\* The steps after ReadCurrent, before .env is written.
Changing == {"reset", "alter", "write", "undo observer", "undo grafana"}
Sound(k) == stored[k] \in {0, env[k]}

\* A step is only reached for a container the rotation found, a rotation has a
\* password to draw, and containers are created with complete secrets.
PlaceInv ==
    /\ pc = "read" => drawn < MaxPasswords
    /\ pc \in Changing => drawn # 0
    /\ pc \in {"reset", "undo grafana"} => "grafana" \in found
    /\ pc \in {"alter", "undo observer"} => "clickhouse" \in found
    /\ pc \in Ups => Complete
    /\ \A c \in running : \A k \in SecretKeys : loaded[c][k] # 0

\* What the rotation knows of the main user stays true until Compose runs.
LoginInv == pc \in Changing /\ "clickhouse" \in found => CanLogIn

\* Compose gives every container that it has passed the secrets of .env.
UpInv ==
    /\ pc \in {"up flink", "up grafana"} => loaded["clickhouse"] = env
    /\ pc = "up grafana" => loaded["flink"] = env

\* Until a step fails after its effect, all that differs from .env can be undone
\* from current, in a container that was found.
RestoreInv ==
    agreed /\ ~spoiled =>
        /\ pc \in {"read", "reset"} => Agreement
        /\ pc \in Changing =>
              /\ current = env
              /\ \A c \in running : loaded[c] = env
              /\ "clickhouse" \in found => Complete
              /\ Sound("grafana") \/ (pc # "reset" /\ "grafana" \in found)
              /\ Sound("observer") \/ (pc \in {"write", "undo observer"}
                                         /\ "clickhouse" \in found)

\* What the rotation has set is what it writes to .env.
StagedInv ==
    /\ pc \in {"alter", "write"} /\ "grafana" \in found => stored["grafana"] = drawn
    /\ pc = "write" /\ "clickhouse" \in found => stored["observer"] = drawn
    /\ rotating /\ pc \in Ups =>
          /\ env = [k \in SecretKeys |-> drawn]
          /\ "grafana" \in found => stored["grafana"] = drawn
          /\ "clickhouse" \in found => stored["observer"] = drawn

CredentialsInv ==
    TypeOK /\ PlaceInv /\ LoginInv /\ UpInv /\ RestoreInv /\ StagedInv

-----------------------------------------------------------------------------
(* Types.                                                                  *)

LEMMA InitTypeOK == Init => TypeOK
<1> SUFFICES ASSUME Init PROVE TypeOK
  OBVIOUS
<1>1. 0 \in 0 .. drawn /\ drawn \in 0 .. drawn
  BY DEF Init
<1>2. None \in [SecretKeys -> 0 .. drawn]
  BY <1>1 DEF None
<1>3. stored \in [Persisted -> 0 .. drawn] /\ drawn \in Passwords
  BY <1>1, MaxPasswordsAssumption DEF Init, Passwords
<1> QED
  BY <1>2, <1>3 DEF Init, TypeOK, PCs

\* Passwords are only ever added.
LEMMA SecretsGrow ==
    ASSUME TypeOK, drawn' \in Passwords, drawn <= drawn'
    PROVE  /\ \A f : f \in [SecretKeys -> 0 .. drawn] => f \in [SecretKeys -> 0 .. drawn']
           /\ loaded \in [Containers -> [SecretKeys -> 0 .. drawn']]
           /\ stored \in [Persisted -> 0 .. drawn']
BY DEF TypeOK, Passwords

LEMMA NextTypeOK == TypeOK /\ PlaceInv /\ [Next]_vars => TypeOK'
<1> SUFFICES ASSUME TypeOK, PlaceInv, [Next]_vars PROVE TypeOK'
  OBVIOUS
<1> USE DEF labVars, terminalVars, historyVars
<1>1. CASE Generate
  <2>1. drawn' \in Passwords /\ drawn <= drawn'
    BY <1>1, MaxPasswordsAssumption DEF Generate, TypeOK, Passwords
  <2>2. env' \in [SecretKeys -> 0 .. drawn'] /\ Complete'
    BY <1>1, <2>1 DEF Generate, Fresh, Complete, TypeOK, Passwords
  <2> QED
    BY <1>1, <2>1, <2>2, SecretsGrow DEF Generate, TypeOK
<1>2. CASE Up
  BY <1>2 DEF Up, TypeOK, PCs, Complete
<1>3. CASE \E c \in Containers : Ends(c)
  BY <1>3 DEF Ends, TypeOK, Complete
<1>4. CASE Reset
  BY <1>4 DEF Reset, TypeOK, Complete, Passwords
<1>5. CASE BeginRotation
  BY <1>5 DEF BeginRotation, TypeOK, PCs, Complete, Rotatable, Agreement
<1>6. CASE ReadCurrent
  <2>1. drawn' \in Passwords /\ drawn <= drawn'
    BY <1>6, MaxPasswordsAssumption DEF ReadCurrent, PlaceInv, TypeOK, Passwords
  <2>2. current' \in [SecretKeys -> 0 .. drawn]
    BY <1>6 DEF ReadCurrent, CurrentCredentials, TypeOK, Containers, Rotatable
  <2>3. pc' \in PCs
    BY <1>6 DEF ReadCurrent, AfterGrafana, PCs
  <2> QED
    BY <1>6, <2>1, <2>2, <2>3, SecretsGrow DEF ReadCurrent, TypeOK, Complete
<1>7. ASSUME NEW c, NEW k \in Persisted, NEW next \in PCs, NEW onError \in PCs,
             NEW password \in 0 .. drawn,
             Exec(c, k, password, next, onError),
             UNCHANGED <<drawn, env, running, loaded, rotating, found, current, agreed>>
      PROVE  TypeOK'
  BY <1>7 DEF Exec, TypeOK, Complete
<1>8. drawn \in 0 .. drawn
  BY DEF TypeOK, Passwords
<1>9. CASE ResetGrafana
  BY <1>7, <1>8, <1>9 DEF ResetGrafana, Persisted, PCs, AfterGrafana
<1>10. CASE AlterObserver
  <2>1. UndoCompleted(found) \in PCs
    BY DEF UndoCompleted, PCs
  <2>2. CASE Exec("clickhouse", "observer", drawn, "write", UndoCompleted(found))
    BY <1>7, <1>8, <1>10, <2>1, <2>2 DEF AlterObserver, Persisted, PCs
  <2>3. CASE pc' = UndoCompleted(found) /\ UNCHANGED <<stored, spoiled>>
    BY <1>10, <2>1, <2>3 DEF AlterObserver, TypeOK, Complete
  <2> QED
    BY <1>10, <2>2, <2>3 DEF AlterObserver
<1>11. CASE WriteEnvironment
  <2>1. env' \in [SecretKeys -> 0 .. drawn]
    BY <1>8, <1>11 DEF WriteEnvironment
  <2>2. Complete' \/ env' = None
    BY <1>8, <1>11 DEF WriteEnvironment, Complete, None, TypeOK, Passwords
  <2> QED
    BY <1>11, <2>1, <2>2 DEF WriteEnvironment, TypeOK, PCs
<1>12. CASE WriteFails
  BY <1>12 DEF WriteFails, UndoesBoth, UndoCompleted, TypeOK, PCs, Complete
<1>13. ASSUME NEW c, NEW k \in Persisted, NEW next \in PCs, Undo(c, k, next),
              UNCHANGED <<drawn, env, running, loaded, rotating, found, current, agreed>>
       PROVE  TypeOK'
  BY <1>13 DEF Undo, TypeOK, Complete, Persisted, SecretKeys
<1>14. CASE UndoObserver
  BY <1>13, <1>14 DEF UndoObserver, UndoCompleted, Persisted, PCs
<1>15. CASE UndoGrafana
  BY <1>13, <1>15 DEF UndoGrafana, Persisted, PCs
<1>16. CASE Aborts
  BY <1>16 DEF Aborts, TypeOK, PCs, Complete
<1>17. ASSUME NEW c \in Containers, Creates(c)
       PROVE  /\ running' \subseteq Containers
              /\ loaded' \in [Containers -> [SecretKeys -> 0 .. drawn]]
  BY <1>17 DEF Creates, TypeOK
<1>18. ASSUME NEW k \in Persisted, Initializes(k)
       PROVE  stored' \in [Persisted -> 0 .. drawn]
  BY <1>18 DEF Initializes, TypeOK, Persisted, SecretKeys
<1>19. CASE UpClickHouse
  BY <1>17, <1>18, <1>19
  DEF UpClickHouse, TypeOK, PCs, Complete, Persisted, Containers, Rotatable
<1>20. CASE UpFlink
  BY <1>17, <1>20 DEF UpFlink, TypeOK, PCs, Complete, Containers
<1>21. CASE UpGrafana
  BY <1>17, <1>18, <1>21
  DEF UpGrafana, TypeOK, PCs, Complete, Persisted, Containers, Rotatable
<1>22. CASE RebuildFlink
  BY <1>17, <1>22 DEF RebuildFlink, TypeOK, Complete, Containers
<1>23. CASE UNCHANGED vars
  BY <1>23 DEF vars, TypeOK, Complete
<1> QED
  BY <1>1, <1>2, <1>3, <1>4, <1>5, <1>6, <1>9, <1>10, <1>11, <1>12, <1>14, <1>15,
     <1>16, <1>19, <1>20, <1>21, <1>22, <1>23
  DEF Next, Rotation

-----------------------------------------------------------------------------
(* The steps of a rotation.                                                *)

LEMMA NextPlaceInv == TypeOK /\ PlaceInv /\ [Next]_vars => PlaceInv'
<1> SUFFICES ASSUME TypeOK, PlaceInv, [Next]_vars PROVE PlaceInv'
  OBVIOUS
<1> USE DEF labVars, terminalVars, historyVars, PlaceInv, Ups, Changing
<1>1. CASE Generate
  BY <1>1 DEF Generate
<1>2. CASE Up
  BY <1>2 DEF Up, Complete
<1>3. CASE \E c \in Containers : Ends(c)
  BY <1>3 DEF Ends, Complete
<1>4. CASE Reset
  BY <1>4 DEF Reset
<1>5. CASE BeginRotation
  BY <1>5 DEF BeginRotation
<1>6. CASE ReadCurrent
  BY <1>6 DEF ReadCurrent, AfterGrafana, TypeOK, Passwords
<1>7. CASE ResetGrafana
  BY <1>7 DEF ResetGrafana, Exec, AfterGrafana
<1>8. CASE AlterObserver
  BY <1>8 DEF AlterObserver, Exec, UndoCompleted
<1>9. CASE WriteEnvironment
  BY <1>9 DEF WriteEnvironment, Complete
<1>10. CASE WriteFails
  BY <1>10 DEF WriteFails, UndoesBoth, UndoCompleted
<1>11. CASE UndoObserver
  BY <1>11 DEF UndoObserver, Undo, UndoCompleted
<1>12. CASE UndoGrafana
  BY <1>12 DEF UndoGrafana, Undo
<1>13. CASE Aborts
  BY <1>13 DEF Aborts
<1>14. ASSUME NEW c \in Containers, Creates(c), Complete
       PROVE  \A d \in running' : \A k \in SecretKeys : loaded'[d][k] # 0
  BY <1>14 DEF Creates, Complete, TypeOK
<1>15. CASE UpClickHouse \/ UpFlink \/ UpGrafana \/ RebuildFlink
  BY <1>14, <1>15
  DEF UpClickHouse, UpFlink, UpGrafana, RebuildFlink, Complete, Containers, Rotatable
<1>16. CASE UNCHANGED vars
  BY <1>16 DEF vars, Complete
<1> QED
  BY <1>1, <1>2, <1>3, <1>4, <1>5, <1>6, <1>7, <1>8, <1>9, <1>10, <1>11, <1>12,
     <1>13, <1>15, <1>16
  DEF Next, Rotation

\* Rotation keeps knowing the main user: ClickHouse is not recreated meanwhile.
LEMMA NextLoginInv == TypeOK /\ PlaceInv /\ LoginInv /\ [Next]_vars => LoginInv'
<1> SUFFICES ASSUME TypeOK, PlaceInv, LoginInv, [Next]_vars PROVE LoginInv'
  OBVIOUS
<1> USE DEF labVars, terminalVars, historyVars, LoginInv, CanLogIn, Changing
<1>1. CASE ReadCurrent
  <2>1. "clickhouse" \in found => current'["clickhouse"] = loaded["clickhouse"]["clickhouse"]
    BY <1>1 DEF ReadCurrent, CurrentCredentials, SecretKeys
  <2> QED
    BY <1>1, <2>1 DEF ReadCurrent
\* The steps in which the terminal has gone from one step of Changing to the next.
<1>2. CASE UNCHANGED <<loaded, found, current>> /\ (pc' \in Changing => pc \in Changing)
  BY <1>2
<1>3. CASE Generate \/ Up \/ Reset \/ \E c \in Containers : Ends(c)
  BY <1>2, <1>3 DEF Generate, Up, Reset, Ends
<1>4. CASE BeginRotation \/ WriteEnvironment \/ UpClickHouse \/ UpFlink \/ UpGrafana
  BY <1>4 DEF BeginRotation, WriteEnvironment, UpClickHouse, UpFlink, UpGrafana
<1>5. CASE ResetGrafana \/ AlterObserver
  BY <1>2, <1>5 DEF ResetGrafana, AlterObserver
<1>6. CASE WriteFails \/ UndoObserver \/ UndoGrafana
  BY <1>2, <1>6 DEF WriteFails, UndoObserver, UndoGrafana
<1>7. CASE Aborts
  BY <1>7 DEF Aborts
<1>8. CASE RebuildFlink
  <2>1. loaded'["clickhouse"] = loaded["clickhouse"] /\ loaded'["flink"] = env
    BY <1>8 DEF RebuildFlink, Creates, TypeOK, Containers, Rotatable
  <2> QED
    BY <1>8, <2>1 DEF RebuildFlink
<1>9. CASE UNCHANGED vars
  BY <1>2, <1>9 DEF vars
<1> QED
  BY <1>1, <1>3, <1>4, <1>5, <1>6, <1>7, <1>8, <1>9 DEF Next, Rotation

\* The containers that Compose has passed.
LEMMA NextUpInv == TypeOK /\ UpInv /\ [Next]_vars => UpInv'
<1> SUFFICES ASSUME TypeOK, UpInv, [Next]_vars PROVE UpInv'
  OBVIOUS
<1> USE DEF labVars, terminalVars, historyVars, UpInv
<1>1. CASE UpClickHouse
  BY <1>1 DEF UpClickHouse, Creates, TypeOK, Containers, Rotatable
<1>2. CASE UpFlink
  BY <1>2 DEF UpFlink, Creates, TypeOK, Containers, Rotatable
<1>3. CASE UpGrafana
  BY <1>3 DEF UpGrafana, Creates, TypeOK, Containers, Rotatable
<1>4. CASE Aborts
  BY <1>4 DEF Aborts, TypeOK
<1>5. CASE Generate \/ Up \/ Reset \/ \E c \in Containers : Ends(c)
  BY <1>5 DEF Generate, Up, Reset, Ends
<1>6. CASE BeginRotation \/ ReadCurrent \/ ResetGrafana \/ AlterObserver
  BY <1>6 DEF BeginRotation, ReadCurrent, ResetGrafana, AlterObserver, Exec,
     AfterGrafana, UndoCompleted
<1>7. CASE WriteEnvironment \/ WriteFails \/ UndoObserver \/ UndoGrafana
  BY <1>7 DEF WriteEnvironment, WriteFails, UndoObserver, UndoGrafana, Undo,
     UndoesBoth, UndoCompleted
<1>8. CASE RebuildFlink
  <2>1. loaded'["clickhouse"] = loaded["clickhouse"] /\ loaded'["flink"] = env
    BY <1>8 DEF RebuildFlink, Creates, TypeOK, Containers, Rotatable
  <2> QED
    BY <1>8, <2>1 DEF RebuildFlink
<1>9. CASE UNCHANGED vars
  BY <1>9 DEF vars
<1> QED
  BY <1>1, <1>2, <1>3, <1>4, <1>5, <1>6, <1>7, <1>8, <1>9 DEF Next, Rotation

\* All a rotation has changed can be undone, and what a failed one leaves agrees
\* with .env.
LEMMA NextRestoreInv ==
    TypeOK /\ PlaceInv /\ RestoreInv /\ [Next]_vars => RestoreInv'
<1> SUFFICES ASSUME TypeOK, PlaceInv, RestoreInv, [Next]_vars PROVE RestoreInv'
  OBVIOUS
<1> USE DEF labVars, terminalVars, historyVars, RestoreInv, Sound, Changing
<1>1. CASE Generate
  BY <1>1 DEF Generate
<1>2. CASE Up \/ Reset
  BY <1>2 DEF Up, Reset
<1>3. ASSUME NEW c \in Containers, Ends(c) PROVE RestoreInv'
  <2>1. Agreement => Agreement'
    BY <1>3 DEF Ends, Agreement
  <2> QED
    BY <1>3, <2>1 DEF Ends, Complete
<1>4. CASE BeginRotation
  BY <1>4 DEF BeginRotation, Agreement
<1>5. CASE ReadCurrent
  <2> SUFFICES ASSUME agreed, ~spoiled
               PROVE  /\ Agreement /\ current' = env
                      /\ "clickhouse" \in found => Complete
    BY <1>5 DEF ReadCurrent, AfterGrafana, Agreement, Persisted, Complete
  <2>1. Agreement
    BY <1>5 DEF ReadCurrent
  <2>2. \A c \in found : loaded[c] = env
    BY <1>5, <2>1 DEF ReadCurrent, Agreement
  <2>3. CurrentCredentials(found) = [k \in SecretKeys |-> env[k]]
    BY <2>2 DEF CurrentCredentials
  <2>4. current' = env
    BY <1>5, <2>3 DEF ReadCurrent, TypeOK
  <2>5. "clickhouse" \in found => Complete
    BY <1>5, <2>2 DEF ReadCurrent, PlaceInv, Complete
  <2> QED
    BY <2>1, <2>4, <2>5
<1>6. CASE ResetGrafana
  BY <1>6
  DEF ResetGrafana, Exec, AfterGrafana, PlaceInv, Agreement, Complete, TypeOK, Persisted
<1>7. CASE AlterObserver
  BY <1>7
  DEF AlterObserver, Exec, UndoCompleted, PlaceInv, Complete, TypeOK, Persisted
<1>8. CASE WriteEnvironment
  BY <1>8 DEF WriteEnvironment
<1>9. CASE WriteFails
  BY <1>9 DEF WriteFails, UndoesBoth, UndoCompleted, PlaceInv, Complete, SecretKeys
<1>10. CASE UndoObserver
  BY <1>10 DEF UndoObserver, Undo, UndoCompleted, Complete, TypeOK, Persisted
<1>11. CASE UndoGrafana
  BY <1>11 DEF UndoGrafana, Undo
<1>12. CASE Aborts
  BY <1>12 DEF Aborts
<1>13. CASE UpClickHouse \/ UpFlink \/ UpGrafana
  BY <1>13 DEF UpClickHouse, UpFlink, UpGrafana
<1>14. CASE RebuildFlink
  <2>1. \A c \in running' : c \in running \/ loaded'[c] = env
    BY <1>14 DEF RebuildFlink, Creates, TypeOK, Containers
  <2>2. \A c \in running : loaded'[c] \in {loaded[c], env}
    BY <1>14 DEF RebuildFlink, Creates, TypeOK, Containers
  <2>3. (\A c \in running : loaded[c] = env) => \A c \in running' : loaded'[c] = env
    BY <2>1, <2>2
  <2>4. Agreement => Agreement'
    BY <1>14, <2>3 DEF RebuildFlink, Agreement
  <2> QED
    BY <1>14, <2>3, <2>4 DEF RebuildFlink, Complete
<1>15. CASE UNCHANGED vars
  BY <1>15 DEF vars, Agreement, Complete
<1> QED
  BY <1>1, <1>2, <1>3, <1>4, <1>5, <1>6, <1>7, <1>8, <1>9, <1>10, <1>11, <1>12,
     <1>13, <1>14, <1>15
  DEF Next, Rotation

LEMMA NextStagedInv ==
    TypeOK /\ PlaceInv /\ StagedInv /\ [Next]_vars => StagedInv'
<1> SUFFICES ASSUME TypeOK, PlaceInv, StagedInv, [Next]_vars PROVE StagedInv'
  OBVIOUS
<1> USE DEF labVars, terminalVars, historyVars, StagedInv, Ups
<1>1. CASE Generate \/ Up \/ Reset
  BY <1>1 DEF Generate, Up, Reset
<1>2. ASSUME NEW c \in Containers, Ends(c) PROVE StagedInv'
  BY <1>2 DEF Ends
<1>3. CASE BeginRotation
  BY <1>3 DEF BeginRotation
<1>4. CASE ReadCurrent
  BY <1>4 DEF ReadCurrent, AfterGrafana
<1>5. CASE ResetGrafana
  BY <1>5 DEF ResetGrafana, Exec, AfterGrafana, TypeOK, Persisted
<1>6. CASE AlterObserver
  BY <1>6 DEF AlterObserver, Exec, UndoCompleted, TypeOK, Persisted
<1>7. CASE WriteEnvironment
  BY <1>7 DEF WriteEnvironment
<1>8. CASE WriteFails \/ UndoObserver \/ UndoGrafana
  BY <1>8 DEF WriteFails, UndoObserver, UndoGrafana, Undo, UndoesBoth, UndoCompleted
<1>9. CASE Aborts
  BY <1>9 DEF Aborts
<1>10. CASE UpClickHouse
  BY <1>10 DEF UpClickHouse, Initializes, TypeOK, Persisted, SecretKeys
<1>11. CASE UpFlink
  BY <1>11 DEF UpFlink
<1>12. CASE UpGrafana
  BY <1>12 DEF UpGrafana
<1>13. CASE RebuildFlink
  BY <1>13 DEF RebuildFlink
<1>14. CASE UNCHANGED vars
  BY <1>14 DEF vars
<1> QED
  BY <1>1, <1>2, <1>3, <1>4, <1>5, <1>6, <1>7, <1>8, <1>9, <1>10, <1>11, <1>12,
     <1>13, <1>14
  DEF Next, Rotation

-----------------------------------------------------------------------------
(* The theorems.                                                           *)

LEMMA InitCredentials == Init => CredentialsInv
<1> SUFFICES ASSUME Init PROVE CredentialsInv
  OBVIOUS
<1>1. PlaceInv /\ LoginInv /\ UpInv
  BY DEF Init, PlaceInv, LoginInv, UpInv, Ups, Changing
<1>2. RestoreInv /\ StagedInv
  BY DEF Init, RestoreInv, StagedInv, Ups
<1> QED
  BY <1>1, <1>2, InitTypeOK DEF CredentialsInv

LEMMA NextCredentials == CredentialsInv /\ [Next]_vars => CredentialsInv'
BY NextTypeOK, NextPlaceInv, NextLoginInv, NextUpInv, NextRestoreInv, NextStagedInv
DEF CredentialsInv

\* The inductive invariant of the lab's passwords, for any number of rotations.
THEOREM CredentialsInvariant == Spec => []CredentialsInv
BY InitCredentials, NextCredentials, PTL DEF Spec

\* Every variable has its type and no password is in force that was not drawn.
THEOREM CredentialsTypeCorrect == Spec => []TypeOK
<1>1. CredentialsInv => TypeOK
  BY DEF CredentialsInv
<1> QED
  BY <1>1, CredentialsInvariant, PTL

\* Whenever rotate_credentials logs in to ClickHouse, it has the password with
\* which the container was started, however earlier rotations ended.
THEOREM CanAuthenticateHolds == Spec => []CanAuthenticate
<1>1. CredentialsInv => CanAuthenticate
  BY DEF CredentialsInv, PlaceInv, LoginInv, CanAuthenticate, Changing
<1> QED
  BY <1>1, CredentialsInvariant, PTL

\* The lab agrees with .env after a rotation that gave up in credentials.py,
\* if it did before and nothing failed after its effect.
THEOREM FailureRestoresHolds == Spec => FailureRestores
<1> DEFINE Restores ==
      pc # "idle" /\ pc' = "idle" /\ pc \notin {"up clickhouse", "up flink", "up grafana"}
          => (agreed /\ ~spoiled' => Agreement')
<1>1. ASSUME CredentialsInv, [Next]_vars PROVE [Restores]_vars
  <2> SUFFICES ASSUME pc # "idle", pc' = "idle", pc \notin Ups, agreed, ~spoiled'
               PROVE  Agreement'
    BY DEF Ups
  <2> USE DEF labVars, terminalVars, historyVars
  <2>1. TypeOK /\ PlaceInv /\ RestoreInv
    BY <1>1 DEF CredentialsInv
  <2>2. CASE ResetGrafana
    BY <2>1, <2>2 DEF ResetGrafana, Exec, AfterGrafana, RestoreInv, Agreement
  <2>3. CASE AlterObserver
    BY <2>1, <2>3
    DEF AlterObserver, Exec, UndoCompleted, RestoreInv, Sound, Changing, Agreement, Persisted
  <2>4. CASE WriteFails
    BY <2>1, <2>4
    DEF WriteFails, UndoesBoth, UndoCompleted, RestoreInv, Sound, Changing, Agreement,
        Persisted, Complete, SecretKeys
  <2>5. CASE UndoObserver
    BY <2>1, <2>5
    DEF UndoObserver, Undo, UndoCompleted, RestoreInv, Sound, Changing, Agreement,
        Persisted, TypeOK
  <2>6. CASE UndoGrafana
    BY <2>1, <2>6
    DEF UndoGrafana, Undo, RestoreInv, Sound, Changing, Agreement, Persisted, TypeOK
  <2>7. CASE Aborts
    BY <2>1, <2>7 DEF Aborts, RestoreInv, Changing, Agreement
  <2>8. CASE ReadCurrent \/ WriteEnvironment
    BY <2>8 DEF ReadCurrent, AfterGrafana, WriteEnvironment
  <2>9. CASE \E c \in Containers : Ends(c)
    BY <2>9 DEF Ends
  <2>10. CASE Generate \/ Up \/ Reset \/ BeginRotation \/ RebuildFlink \/ UNCHANGED vars
    BY <2>10 DEF Generate, Up, Reset, BeginRotation, RebuildFlink, vars
  <2>11. CASE UpClickHouse \/ UpFlink \/ UpGrafana
    BY <2>11 DEF UpClickHouse, UpFlink, UpGrafana, Ups
  <2> QED
    BY <1>1, <2>2, <2>3, <2>4, <2>5, <2>6, <2>7, <2>8, <2>9, <2>10, <2>11
    DEF Next, Rotation
<1>2. CredentialsInv /\ [Next]_vars => [Restores]_vars
  BY <1>1
<1> QED
  BY <1>2, CredentialsInvariant, PTL DEF Spec, FailureRestores

\* A rotation that found both services and came to its end has healed what
\* earlier ones left behind: volumes, containers and .env agree.
THEOREM RotationHealsHolds == Spec => RotationHeals
<1> DEFINE Heals == UpGrafana /\ rotating /\ found = Rotatable => Agreement'
<1>1. ASSUME CredentialsInv, UpGrafana, rotating, found = Rotatable PROVE Agreement'
  <2>1. /\ env = [k \in SecretKeys |-> drawn]
        /\ stored["grafana"] = drawn /\ stored["observer"] = drawn
    BY <1>1 DEF CredentialsInv, StagedInv, Ups, UpGrafana, Rotatable
  <2>2. loaded["clickhouse"] = env /\ loaded["flink"] = env
    BY <1>1 DEF CredentialsInv, UpInv, UpGrafana
  <2>3. \A c \in running' : loaded'[c] = env'
    BY <1>1, <2>2
    DEF UpGrafana, Creates, CredentialsInv, TypeOK, Containers, Rotatable
  <2>4. \A k \in Persisted : stored'[k] \in {0, env'[k]}
    BY <1>1, <2>1
    DEF UpGrafana, Initializes, CredentialsInv, TypeOK, Persisted, SecretKeys
  <2> QED
    BY <2>3, <2>4 DEF Agreement
<1>2. CredentialsInv /\ [Next]_vars => [Heals]_vars
  BY <1>1
<1> QED
  BY <1>2, CredentialsInvariant, PTL DEF Spec, RotationHeals

=============================================================================
