---------------------------- MODULE AppLifecycle ----------------------------
(* application/runtime.py, ssh_tunnel.py and tunnel_guardian.py: the program    *)
(* owns a guardian process, which owns the ssh process the database is reached  *)
(* through.  The guardian holds the read end of a pipe from the program, so     *)
(* that the tunnel ends with the program however the program ends.              *)
EXTENDS Naturals

VARIABLES phase,    \* of the program: WorkbenchApplication, then its window
          guardian, \* the process of tunnel_guardian.py
          ssh       \* the process it supervises

appVars == <<phase, guardian, ssh>>

AppTypeOK ==
  /\ phase \in {"off", "tunnel", "probing", "running", "stopping", "stopped"}
  /\ guardian \in {"none", "up", "gone"}
  /\ ssh \in {"none", "starting", "open", "dead"}

AppInit == phase = "off" /\ guardian = "none" /\ ssh = "none"

\* Faulty variant: only stop() closes the pipe; another process has inherited its end.
ParentHoldsInherited == phase # "stopping"

\* The write end of the pipe is closed by stop(), or by the death of the program.
ParentHolds == phase \in {"tunnel", "probing", "running"}

SshAlive == ssh \in {"starting", "open"}

\* start(): the endpoint may be taken, or the guardian may not start.
StartTunnel ==
  /\ phase = "off"
  /\ \/ phase' = "tunnel" /\ guardian' = "up"
     \/ phase' = "stopped" /\ UNCHANGED guardian
  /\ UNCHANGED ssh

TunnelIsReady ==
  /\ phase = "tunnel" /\ guardian = "up" /\ ssh = "open"
  /\ phase' = "probing"
  /\ UNCHANGED <<guardian, ssh>>

\* The guardian has ended, or the startup time is over.
TunnelFails ==
  /\ phase = "tunnel"
  /\ phase' = "stopping"
  /\ UNCHANGED <<guardian, ssh>>

\* The first listings and the bundled libraries: they need the tunnel, and may
\* fail with it.
Probe ==
  /\ phase = "probing"
  /\ \/ phase' = "running" /\ ssh = "open"
     \/ phase' = "stopping"
  /\ UNCHANGED <<guardian, ssh>>

\* stop() waits for the guardian.
StopTunnel ==
  /\ phase = "stopping" /\ guardian = "gone"
  /\ phase' = "stopped"
  /\ UNCHANGED <<guardian, ssh>>

GuardianSpawns ==
  /\ guardian = "up" /\ ssh = "none"
  /\ ssh' = "starting"
  /\ UNCHANGED <<phase, guardian>>

\* End of file on the pipe: the child is terminated, and killed if need be.
GuardianTerminates ==
  /\ guardian = "up" /\ SshAlive /\ ~ParentHolds
  /\ ssh' = "dead"
  /\ UNCHANGED <<phase, guardian>>

GuardianEnds ==
  /\ guardian = "up" /\ ssh = "dead"
  /\ guardian' = "gone"
  /\ UNCHANGED <<phase, ssh>>

SshOpens == ssh = "starting" /\ ssh' = "open" /\ UNCHANGED <<phase, guardian>>

\* ssh gives up: no connection, or the connection is lost.
SshExits == SshAlive /\ ssh' = "dead" /\ UNCHANGED <<phase, guardian>>

\* The program is killed.
Dies ==
  /\ phase \in {"tunnel", "probing", "running", "stopping"}
  /\ phase' = "stopped"
  /\ UNCHANGED <<guardian, ssh>>
=============================================================================
