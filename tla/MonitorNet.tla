----------------------------- MODULE MonitorNet -----------------------------
(***************************************************************************)
(* The connections between the reporting servers and the monitor server:   *)
(* a stream of messages each, until one of the ends closes it.             *)
(***************************************************************************)
EXTENDS Integers, Sequences, FiniteSets

CONSTANTS Servers,  \* the reporting servers, by their number
          Handles   \* connections that can exist at one time

ASSUME NetAssumption == Handles \subseteq Nat \ {0} /\ IsFiniteSet(Handles)

NoHandle == 0

VARIABLES net,  \* of a connection: messages on their way to the monitor server
          cut   \* connections closed by one of their ends, or broken
wires == <<net, cut>>

NetInit == net = [h \in Handles |-> <<>>] /\ cut = {}
=============================================================================
