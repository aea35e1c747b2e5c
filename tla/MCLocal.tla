------------------------------ MODULE MCLocal ------------------------------
(***************************************************************************)
(* Instances for TLC of the parts that a machine runs beside its store and *)
(* its sync.  They share no state, so one behaviour exercises one of them: *)
(* `part` says which, and the others stay as they started.                 *)
(***************************************************************************)
EXTENDS RateLimit, StatusSocket, Watcher, Clipboard, GitPush, NativeHost, AndroidBridge,
        ForeignImport, GpgStreams

VARIABLE part

Parts == {"limiter", "socket", "watcher", "clipboard", "push", "host", "bridge", "import",
          "gpg"}

LocalInit ==
    /\ part \in Parts
    /\ part # "push" => work = [EmptyTree EXCEPT ![Attributes] = Rule]
    /\ part # "import" => progress = "slug"
    /\ Init /\ SocketInit /\ WatcherInit /\ ClipInit /\ PushInit /\ HostInit /\ BridgeInit
    /\ ImportInit /\ GpgInit

Limiter == /\ part = "limiter" /\ Next
           /\ UNCHANGED <<part, socketVars, watcherVars, clipVars, pushVars, hostVars,
                          bridgeVars, importVars, gpgVars>>
Socket == /\ part = "socket" /\ SocketNext
          /\ UNCHANGED <<part, vars, watcherVars, clipVars, pushVars, hostVars,
                         bridgeVars, importVars, gpgVars>>
StoreWatcher == /\ part = "watcher" /\ WatcherNext
                /\ UNCHANGED <<part, vars, socketVars, clipVars, pushVars, hostVars,
                               bridgeVars, importVars, gpgVars>>
Clips == /\ part = "clipboard" /\ ClipNext
         /\ UNCHANGED <<part, vars, socketVars, watcherVars, pushVars, hostVars,
                        bridgeVars, importVars, gpgVars>>
RemoteSync == /\ part = "push" /\ PushNext
              /\ UNCHANGED <<part, vars, socketVars, watcherVars, clipVars, hostVars,
                             bridgeVars, importVars, gpgVars>>
Browser == /\ part = "host" /\ HostNext
           /\ UNCHANGED <<part, vars, socketVars, watcherVars, clipVars, pushVars,
                          bridgeVars, importVars, gpgVars>>
Phone == /\ part = "bridge" /\ BridgeNext
         /\ UNCHANGED <<part, vars, socketVars, watcherVars, clipVars, pushVars,
                        hostVars, importVars, gpgVars>>
Importer == /\ part = "import" /\ ImportNext
            /\ UNCHANGED <<part, vars, socketVars, watcherVars, clipVars, pushVars,
                           hostVars, bridgeVars, gpgVars>>
Gpg == /\ part = "gpg" /\ GpgNext
       /\ UNCHANGED <<part, vars, socketVars, watcherVars, clipVars, pushVars,
                      hostVars, bridgeVars, importVars>>

LocalNext == Limiter \/ Socket \/ StoreWatcher \/ Clips \/ RemoteSync \/ Browser \/ Phone
                \/ Importer \/ Gpg

localVars == <<part, vars, socketVars, watcherVars, clipVars, pushVars, hostVars, bridgeVars,
               importVars, gpgVars>>

\* A part that does not run has nothing to be fair about: its actions stay
\* disabled.
LocalFairness == WatcherFairness /\ HostFairness /\ BridgeFairness /\ GpgFairness

LocalSpec == LocalInit /\ [][LocalNext]_localVars /\ LocalFairness

-----------------------------------------------------------------------------
\* The type invariants of the parts.
LocalTypeOK ==
    /\ part \in Parts
    /\ TypeOK /\ SocketTypeOK /\ WatcherTypeOK /\ ClipTypeOK /\ PushTypeOK /\ HostTypeOK
    /\ BridgeTypeOK /\ ImportTypeOK /\ GpgTypeOK
=============================================================================
