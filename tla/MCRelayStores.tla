---------------------------- MODULE MCRelayStores ----------------------------
(* What keeps the data, for TLC: the files and their owner, the wasm driver's *)
(* image, the keyring and the migrations.  They share no variable: each       *)
(* behaviour runs the one that `focus' names while the others rest.           *)
EXTENDS RelayStore, RelayImage, RelayKeyring, RelayMigrations

\* Two values of a column that re-encrypt knows.
MCCells == {<<"result", 1>>, <<"result", 2>>}
\* And one of the column it does not.
MCChannel == {<<"result", 1>>, <<"channel", 1>>}

VARIABLE focus   \* the component this behaviour runs

storesVars == <<storeVars, imageVars, ringVars, migVars, focus>>

\* A component out of focus rests in one initial state.
StoresInit ==
  /\ focus \in {"store", "image", "keyring", "migrations"}
  /\ StoreInit /\ ImageInit /\ KeyInit /\ MigInit
  /\ focus # "store" =>
       declared = "none" /\ env = [p \in Procs |-> "native"] /\ files[path].kind = "absent"
  /\ focus # "keyring" => \A c \in Cells : rows[c] = None
  /\ focus # "migrations" => origin = "fresh"

StoresNext ==
  /\ UNCHANGED focus
  /\ \/ focus = "store" /\ StoreNext /\ UNCHANGED <<imageVars, ringVars, migVars>>
     \/ focus = "image" /\ ImageNext /\ UNCHANGED <<storeVars, ringVars, migVars>>
     \/ focus = "keyring" /\ KeyNext /\ UNCHANGED <<storeVars, imageVars, migVars>>
     \/ focus = "migrations" /\ MigNext /\ UNCHANGED <<storeVars, imageVars, ringVars>>

\* The fairness of each component, asked of the one in focus.
StoresFairness ==
  /\ \A p \in Procs : WF_storeVars(focus = "store" /\ OpenStep(p))
  /\ \A r \in Runs : /\ WF_ringVars(focus = "keyring" /\ RunStep(r))
                     /\ WF_ringVars(focus = "keyring" /\ StartRun(r))
  /\ \A col \in Targets : WF_ringVars(focus = "keyring" /\ HourPasses(col))
  /\ \A p \in Openers : /\ WF_migVars(focus = "migrations" /\ RunsStep(p))
                        /\ WF_migVars(focus = "migrations" /\ Starts(p))

StoresSpec == StoresInit /\ [][StoresNext]_storesVars /\ StoresFairness

\* RelayMigrations' UpgradeEnds, asked of the behaviours that run it (db.ts 845-2245).
UpgradeCompletes == focus = "migrations" => UpgradeEnds

\* The promises of an upgrade with its end: an upgraded database is whole and is reached.
UpgradesServe == UpgradeIsSafe /\ UpgradeCompletes
=============================================================================
