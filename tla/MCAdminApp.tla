----------------------------- MODULE MCAdminApp -----------------------------
(***************************************************************************)
(* Parts of the admin app's server that share no variable, side by side,   *)
(* and the log that shows its jobs.  A behaviour is about one of them.     *)
(***************************************************************************)
EXTENDS ThrottleGate, StoreSetup, CatalogScan, InventoryPush, ShutdownOrder, ResultFile,
        ApiRoutes, SyncLog, BundleHandles, SequencesExt

CONSTANTS install, button, r1, r2, r3, FileLines

\* Files of FileLines lines at most, each a row with a title, an empty line or
\* one that is not JSON, with and without a last newline.
Lines == {<<k, "byte1", "byte2">> : k \in RowKinds} \cup {<<>>, <<"byte1", "byte2">>}
MCFiles == LET full == {FlattenSeq([i \in DOMAIN f |-> Append(f[i], "newline")]) : f \in SeqOf(Lines, FileLines)}
           IN  full \cup {Front(f) : f \in full \ {<<>>}}

VARIABLE scene   \* the part of the app that this behaviour is about

allParts == <<gateVars, setupVars, scanVars, pushVars, shutdownVars, fileVars, routeVars, logVars, handleVars>>

\* Every part starts as it does; one that this behaviour is not about has one start.
Init ==
  /\ scene \in {"gate", "setup", "scan", "push", "shutdown", "file", "routes", "log", "handles"}
  /\ scene # "gate" => bucket = 0
  /\ GateInit
  /\ scene # "setup" => store = [object |-> NoDefinition, step |-> NoDefinition,
                                 ingredients |-> NoDefinition]
  /\ SetupInit
  /\ scene # "scan" => catalog = [p \in Catalog |-> Inactive]
  /\ ScanInit /\ (scene # "scan" => walk.kind = "starter")
  /\ PushInit
  /\ ShutdownInit
  /\ scene # "file" => file = CHOOSE f \in Files : TRUE
  /\ FileInit
  /\ scene # "routes" => route = CHOOSE r \in Routes : TRUE
  /\ RouteInit
  /\ LogInit
  /\ scene # "handles" => holder = [n \in Ordinals |-> NoCreator]
  /\ HandlesInit

Next ==
  \/ scene = "gate" /\ GateNext
     /\ UNCHANGED <<scene, setupVars, scanVars, pushVars, shutdownVars, fileVars, routeVars, logVars, handleVars>>
  \/ scene = "setup" /\ SetupNext
     /\ UNCHANGED <<scene, gateVars, scanVars, pushVars, shutdownVars, fileVars, routeVars, logVars, handleVars>>
  \/ scene = "scan" /\ ScanNext
     /\ UNCHANGED <<scene, gateVars, setupVars, pushVars, shutdownVars, fileVars, routeVars, logVars, handleVars>>
  \/ scene = "push" /\ PushNext
     /\ UNCHANGED <<scene, gateVars, setupVars, scanVars, shutdownVars, fileVars, routeVars, logVars, handleVars>>
  \/ scene = "shutdown" /\ ShutdownNext
     /\ UNCHANGED <<scene, gateVars, setupVars, scanVars, pushVars, fileVars, routeVars, logVars, handleVars>>
  \/ scene = "file" /\ FileNext
     /\ UNCHANGED <<scene, gateVars, setupVars, scanVars, pushVars, shutdownVars, routeVars, logVars, handleVars>>
  \/ scene = "routes" /\ RouteNext
     /\ UNCHANGED <<scene, gateVars, setupVars, scanVars, pushVars, shutdownVars, fileVars, logVars, handleVars>>
  \/ scene = "log" /\ LogNext
     /\ UNCHANGED <<scene, gateVars, setupVars, scanVars, pushVars, shutdownVars, fileVars, routeVars, handleVars>>
  \/ scene = "handles" /\ HandlesNext
     /\ UNCHANGED <<scene, gateVars, setupVars, scanVars, pushVars, shutdownVars, fileVars, routeVars, logVars>>

Spec == Init /\ [][Next]_<<scene, allParts>> /\ LogFairness
=============================================================================
