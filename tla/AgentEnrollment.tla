-------------------------- MODULE AgentEnrollment --------------------------
(***************************************************************************)
(* An agent's first start.                                                 *)
(*                                                                         *)
(* With a bootstrap configuration the agent registers at the orchestrator, *)
(* which consumes a use of the enrollment token and creates a device, then *)
(* writes its identity to four files one after the other, and then         *)
(* replaces the bootstrap configuration by a runtime one.  With a runtime  *)
(* configuration it loads the stored identity.  The agent may stop between *)
(* any two steps, a file write may fail half way, and the operator may put *)
(* a bootstrap configuration of any tenant in place again.                 *)
(*                                                                         *)
(* A device is the record of its number and its tenant; a file holds the   *)
(* device it was written for.                                              *)
(***************************************************************************)
EXTENDS Integers, Sequences

CONSTANTS Tenants,
          MaxUses,      \* uses of each tenant's enrollment token
          MaxStops,     \* crashes, failed writes and restarts
          MaxReconfigs, \* bootstrap configurations put in place again
          None

Files == <<"agent.crt", "agent.key", "ca.crt", "meta.json">>
FileNames == {Files[i] : i \in DOMAIN Files}

VARIABLES config,   \* the configuration file: bootstrap of a tenant, or runtime
          temp,     \* the file SaveRuntime writes before it renames it
          file,     \* identity directory: None, Torn, or a device
          pc,       \* where the agent process is
          cfg,      \* the configuration it holds in memory
          ident,    \* the identity it holds
          writing,  \* index of the identity file being saved
          uses,     \* server: uses of each token
          devices,  \* server: devices it registered
          stops, reconfigs
vars == <<config, temp, file, pc, cfg, ident, writing, uses, devices, stops, reconfigs>>

server == <<uses, devices>>

\* A file that was truncated and not filled.
Torn == [nr |-> 0, tenant |-> None]

Bootstrap(t) == [kind |-> "bootstrap", tenant |-> t, device |-> None]
Runtime(d)   == [kind |-> "runtime", tenant |-> d.tenant, device |-> d]

Init ==
    /\ config \in {Bootstrap(t) : t \in Tenants}
    /\ temp = None
    /\ file = [f \in FileNames |-> None]
    /\ pc = "off" /\ cfg = None /\ ident = None /\ writing = 0
    /\ uses = [t \in Tenants |-> 0] /\ devices = {}
    /\ stops = 0 /\ reconfigs = 0

-----------------------------------------------------------------------------
(* Reading the identity directory. *)

\* load: the certificate, its key and the metadata exist, parse, and belong
\* to one device; the CA is optional.
LoadsAs(d) == \A f \in FileNames \ {"ca.crt"} : file[f] = d
Loads == \E d \in devices : LoadsAs(d)
Loaded == CHOOSE d \in devices : LoadsAs(d)

\* identityStateExists.
IdentityStateExists == \E f \in FileNames : file[f] # None

-----------------------------------------------------------------------------
\* The process ends: by itself with an error, or with the machine.
Exit == /\ pc' = "off" /\ cfg' = None /\ ident' = None /\ writing' = 0

\* agent.go: load the configuration; ValidateBootstrap; an agent without a
\* tenant registers, an enrolled one starts.
Launch ==
    /\ pc = "off"
    /\ cfg' = config
    /\ pc' = IF config.kind = "bootstrap" THEN "register" ELSE "start"
    /\ UNCHANGED <<config, temp, file, ident, writing, server, stops, reconfigs>>

\* RegisterWithDeploymentID: a stored identity is used as it is, an
\* incomplete one is refused, and only an empty directory leads to a request.
RegisterWithDeploymentID ==
    /\ pc = "register"
    /\ \/ /\ Loads
          /\ ident' = Loaded /\ pc' = "runtime"
          /\ UNCHANGED <<cfg, writing>>
       \/ ~Loads /\ IdentityStateExists /\ Exit
       \/ /\ ~Loads /\ ~IdentityStateExists
          /\ pc' = "request"
          /\ UNCHANGED <<cfg, ident, writing>>
    /\ UNCHANGED <<config, temp, file, server, stops, reconfigs>>

\* External: the orchestrator consumes the token and creates the device in
\* one transaction, or refuses.
ServerRegisters ==
    /\ pc = "request"
    /\ IF uses[cfg.tenant] < MaxUses
       THEN LET d == [nr |-> uses[cfg.tenant] + 1, tenant |-> cfg.tenant]
            IN /\ uses' = [uses EXCEPT ![cfg.tenant] = @ + 1]
               /\ devices' = devices \cup {d}
               /\ ident' = d /\ pc' = "reply"
               /\ UNCHANGED <<cfg, writing>>
       ELSE Exit /\ UNCHANGED server
    /\ UNCHANGED <<config, temp, file, stops, reconfigs>>

\* The answer names the device; the certificate is made for it and saved.
ReceiveReply ==
    /\ pc = "reply"
    /\ pc' = "save" /\ writing' = 1
    /\ UNCHANGED <<config, temp, file, cfg, ident, server, stops, reconfigs>>

\* save: os.WriteFile truncates a file and then fills it, one file at a time.
Truncate ==
    /\ pc = "save"
    /\ file' = [file EXCEPT ![Files[writing]] = Torn]
    /\ pc' = "fill"
    /\ UNCHANGED <<config, temp, cfg, ident, writing, server, stops, reconfigs>>

Fill ==
    /\ pc = "fill"
    /\ file' = [file EXCEPT ![Files[writing]] = ident]
    /\ writing' = IF writing = Len(Files) THEN 0 ELSE writing + 1
    /\ pc' = IF writing = Len(Files) THEN "runtime" ELSE "save"
    /\ UNCHANGED <<config, temp, cfg, ident, server, stops, reconfigs>>

\* Faulty: the agent goes on although a file was not written.
SaveErrorIgnored == pc' = "runtime" /\ writing' = 0 /\ UNCHANGED <<cfg, ident>>

\* A write fails: RegisterWithDeploymentID returns the error and the agent ends.
SaveError == Exit

SaveFails ==
    /\ pc \in {"save", "fill"} /\ stops < MaxStops
    /\ SaveError
    /\ stops' = stops + 1
    /\ UNCHANGED <<config, temp, file, server, reconfigs>>

\* SaveRuntime: write the temporary file ...
WriteTemp ==
    /\ pc = "runtime"
    /\ temp' = Runtime(ident) /\ cfg' = Runtime(ident)
    /\ pc' = "rename"
    /\ UNCHANGED <<config, file, ident, writing, server, stops, reconfigs>>

\* ... and rename it over the bootstrap configuration.
Rename ==
    /\ pc = "rename"
    /\ config' = temp /\ temp' = None
    /\ pc' = "start"
    /\ UNCHANGED <<file, cfg, ident, writing, server, stops, reconfigs>>

\* core.Agent.Start: LoadExisting never registers; tenant and endpoint must
\* be the configured ones.
Start ==
    /\ pc = "start"
    /\ IF Loads /\ Loaded = cfg.device
       THEN pc' = "running" /\ ident' = Loaded /\ UNCHANGED <<cfg, writing>>
       ELSE Exit
    /\ UNCHANGED <<config, temp, file, server, stops, reconfigs>>

\* Stop, or a crash anywhere.
StopOrCrash ==
    /\ pc # "off" /\ stops < MaxStops
    /\ stops' = stops + 1
    /\ Exit
    /\ UNCHANGED <<config, temp, file, server, reconfigs>>

\* The operator puts a bootstrap configuration in place while the agent is off.
Reconfigure(t) ==
    /\ pc = "off" /\ reconfigs < MaxReconfigs
    /\ config' = Bootstrap(t)
    /\ reconfigs' = reconfigs + 1
    /\ UNCHANGED <<temp, file, pc, cfg, ident, writing, server, stops>>

Next ==
    \/ Launch \/ RegisterWithDeploymentID \/ ServerRegisters \/ ReceiveReply
    \/ Truncate \/ Fill \/ SaveFails \/ WriteTemp \/ Rename \/ Start \/ StopOrCrash
    \/ \E t \in Tenants : Reconfigure(t)

Spec == Init /\ [][Next]_vars

-----------------------------------------------------------------------------
\* The shape of the agent's files, its process and the server's answer.
TypeOK ==
    /\ config.kind \in {"bootstrap", "runtime"} /\ config.tenant \in Tenants
    /\ \A f \in FileNames : file[f] \in {None, Torn} \cup devices
    /\ pc \in {"off", "register", "request", "reply", "save", "fill", "runtime",
               "rename", "start", "running"}
    /\ writing \in 0 .. Len(Files)
    /\ uses \in [Tenants -> 0 .. MaxUses]

\* Wherever the agent stopped and whichever write failed, a runtime
\* configuration names the very device whose complete identity is on disk and
\* which the server registered; the agent that runs is that device; and no
\* request for another device is made while any identity file exists
\* (SaveRuntime comes after save, save's error ends the start, LoadExisting
\* checks the endpoint, identityStateExists).
EnrolmentIsWhole ==
    /\ config.kind = "runtime" => config.device \in devices /\ LoadsAs(config.device)
    /\ pc = "running" => ident = config.device
    /\ pc \in {"request", "reply"} => ~IdentityStateExists
=============================================================================
