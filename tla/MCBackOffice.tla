---------------------------- MODULE MCBackOffice ----------------------------
(***************************************************************************)
(* Small instances for TLC of the modules around the listener: logins,     *)
(* bank transfers and submissions, certificates, administrators and the    *)
(* health report.  They share no state, so that a behaviour is one of one  *)
(* of them: which of them moves is chosen in the initial state.            *)
(***************************************************************************)
EXTENDS WalletLogin, ReferenceNumbers, Certificates, Administration, Monitoring

CONSTANTS t1, t2

\* Two purchases of different transactions.
TwoPurchases == {[tx |-> t1, log |-> 1], [tx |-> t2, log |-> 1]}

VARIABLE part

allVars == <<loginVars, deskVars, certVars, adminVars, monitorVars, part>>

Init ==
  /\ LoginInit
  /\ DeskInit
  /\ CertInit
  /\ AdminInit
  /\ MonitorInit
  /\ part \in {"login", "desk", "certificates", "admin", "monitor"}

Next ==
  /\ \/ part = "login" /\ LoginNext /\ UNCHANGED <<deskVars, certVars, adminVars, monitorVars>>
     \/ part = "desk" /\ DeskNext /\ UNCHANGED <<loginVars, certVars, adminVars, monitorVars>>
     \/ part = "certificates" /\ CertNext /\ UNCHANGED <<loginVars, deskVars, adminVars, monitorVars>>
     \/ part = "admin" /\ AdminNext /\ UNCHANGED <<loginVars, deskVars, certVars, monitorVars>>
     \/ part = "monitor" /\ MonitorNext /\ UNCHANGED <<loginVars, deskVars, certVars, adminVars>>
  /\ UNCHANGED part

Spec == Init /\ [][Next]_allVars

\* Types of all variables of the five modules.
TypeOK == LoginTypeOK /\ DeskTypeOK /\ CertTypeOK /\ AdminTypeOK /\ MonitorTypeOK
=============================================================================
