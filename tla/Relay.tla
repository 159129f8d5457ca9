------------------------------- MODULE Relay -------------------------------
(***************************************************************************)
(* What the proxy promises to the two programs it stands between: it is a  *)
(* pipe.  In each direction every line that was sent is passed on once,    *)
(* whole and in order, and carries what was sent - of a tools/list result, *)
(* the names of its tools - whatever was observed or rewritten on the way. *)
(* All it may add is a notice to the client, between two lines.            *)
(***************************************************************************)
EXTENDS Naturals, Sequences, SequencesExt

CONSTANT Notice  \* the frame the proxy may inject

VARIABLES
  upstream,    \* lines the client sent and the proxy has not passed on
  serverInbox, \* frames the server has not read
  downstream,  \* lines the server sent and the proxy has not passed on
  clientInbox  \* frames the client has not read

relayVars == <<upstream, serverInbox, downstream, clientInbox>>

RelayInit ==
  /\ upstream = <<>> /\ serverInbox = <<>>
  /\ downstream = <<>> /\ clientInbox = <<>>

(* A line enters the proxy.                                                *)
ClientSends ==
  /\ upstream' # <<>> /\ Front(upstream') = upstream
  /\ UNCHANGED <<serverInbox, downstream, clientInbox>>
ServerSends ==
  /\ downstream' # <<>> /\ Front(downstream') = downstream
  /\ UNCHANGED <<upstream, serverInbox, clientInbox>>

(* The oldest line leaves it.                                              *)
PassesToServer ==
  /\ upstream # <<>>
  /\ serverInbox' = serverInbox \o Head(upstream)
  /\ upstream' = Tail(upstream)
  /\ UNCHANGED <<downstream, clientInbox>>
PassesToClient ==
  /\ downstream # <<>>
  /\ clientInbox' = clientInbox \o Head(downstream)
  /\ downstream' = Tail(downstream)
  /\ UNCHANGED <<upstream, serverInbox>>

InjectsNotice ==
  /\ clientInbox' = Append(clientInbox, Notice)
  /\ UNCHANGED <<upstream, serverInbox, downstream>>

ServerReceives ==
  /\ serverInbox # <<>> /\ serverInbox' = Tail(serverInbox)
  /\ UNCHANGED <<upstream, downstream, clientInbox>>
ClientReceives ==
  /\ clientInbox # <<>> /\ clientInbox' = Tail(clientInbox)
  /\ UNCHANGED <<upstream, serverInbox, downstream>>

RelayNext ==
  \/ ClientSends \/ PassesToServer \/ ServerReceives
  \/ ServerSends \/ PassesToClient \/ ClientReceives
  \/ InjectsNotice

RelaySpec == RelayInit /\ [][RelayNext]_relayVars
=============================================================================
