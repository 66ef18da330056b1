-------------------------- MODULE MongoConnection --------------------------
(***************************************************************************)
(* The connection of db/mongo.cjs: connect and ensureConnected, which      *)
(* every operation of the store awaits, and which ensureDatabase and       *)
(* startServer of server.cjs await before anything else.                   *)
(*                                                                         *)
(* connect sets the store's client when the driver has connected and all   *)
(* indexes are there, and clears it when anything fails, whoever set it;   *)
(* attempts are not shared, so that several may be under way.  The driver  *)
(* connects, fails and times out as it likes.  A client that replaces      *)
(* another one is not closed and neither is the other one.                 *)
(***************************************************************************)
EXTENDS Naturals

CONSTANTS
  Callers,    \* operations that are under way at the same time
  Clients,    \* the MongoClients the process creates
  NoClient

ASSUME ConnectionAssumption == NoClient \notin Clients

VARIABLES
  client,     \* this.client and this.db, which are set and cleared together
  connected,  \* status.connected
  unused,     \* clients that are not made yet
  open,       \* clients that are connected
  caller      \* the operations: where they are, the client they made or were given

connectionVars == <<client, connected, unused, open, caller>>

Away == [at |-> "away", with |-> NoClient]

ConnectionTypeOK ==
  /\ client \in Clients \cup {NoClient} /\ connected \in {"no", "yes"}
  /\ unused \subseteq Clients /\ open \subseteq Clients
  /\ caller \in [Callers -> [at : {"away", "dialling", "indexing", "closing", "failing", "using"},
                             with : Clients \cup {NoClient}]]

ConnectionInit ==
  /\ client = NoClient /\ connected = "no"
  /\ unused = Clients /\ open = {}
  /\ caller = [c \in Callers |-> Away]

At(c, where, with) == caller' = [caller EXCEPT ![c] = [at |-> where, with |-> with]]
-----------------------------------------------------------------------------
\* ensureConnected while there is a client: it is handed out.
Reuse(c) ==
  /\ caller[c].at = "away" /\ client # NoClient
  /\ At(c, "using", client)
  /\ UNCHANGED <<client, connected, unused, open>>

\* ensureConnected while there is none: a client is made and dials.
Dial(c) ==
  /\ caller[c].at = "away" /\ client = NoClient
  /\ \E m \in unused : unused' = unused \ {m} /\ At(c, "dialling", m)
  /\ UNCHANGED <<client, connected, open>>

\* client.connect() is done; the ping and the indexes follow.
Dialled(c) ==
  /\ caller[c].at = "dialling"
  /\ open' = open \cup {caller[c].with}
  /\ At(c, "indexing", caller[c].with)
  /\ UNCHANGED <<client, connected, unused>>

Connected(c) ==
  /\ caller[c].at = "indexing"
  /\ client' = caller[c].with /\ connected' = "yes"
  /\ At(c, "using", caller[c].with)
  /\ UNCHANGED <<unused, open>>

\* The driver throws, at the dial, the ping or an index: safeClose begins.
Throws(c) ==
  /\ caller[c].at \in {"dialling", "indexing"}
  /\ At(c, "closing", caller[c].with)
  /\ UNCHANGED <<client, connected, unused, open>>

\* Mutant: the client that is closed is the store's.
CloseCurrent(c) ==
  /\ caller[c].at = "closing"
  /\ open' = open \ {caller[c].with, client}
  /\ client' = NoClient /\ connected' = "no"
  /\ At(c, "failing", NoClient)
  /\ UNCHANGED unused

\* The client is closed; the store's client is cleared, whichever it is by now.
Closed(c) ==
  /\ caller[c].at = "closing"
  /\ open' = open \ {caller[c].with}
  /\ client' = NoClient /\ connected' = "no"
  /\ At(c, "failing", NoClient)
  /\ UNCHANGED unused

\* The catch of ensureConnected clears it again, and the caller answers with 503.
Unavailable(c) ==
  /\ caller[c].at = "failing"
  /\ client' = NoClient /\ connected' = "no"
  /\ caller' = [caller EXCEPT ![c] = Away]
  /\ UNCHANGED <<unused, open>>

\* The operation goes on with this.db: it is gone if an attempt has failed meanwhile
\* (db_not_connected), and may be another client's than the one that was handed out.
Use(c) ==
  /\ caller[c].at = "using"
  /\ caller' = [caller EXCEPT ![c] = Away]
  /\ UNCHANGED <<client, connected, unused, open>>

ConnectionNext ==
  \E c \in Callers :
    \/ Reuse(c) \/ Dial(c) \/ Dialled(c) \/ Connected(c)
    \/ Throws(c) \/ Closed(c) \/ Unavailable(c) \/ Use(c)

ConnectionSpec == ConnectionInit /\ [][ConnectionNext]_connectionVars
-----------------------------------------------------------------------------
\* However attempts overlap and fail, neither the client the store holds nor one an
\* operation was given is ever closed, and the status says whether there is one: an
\* attempt that fails closes its own client only, which nobody else has seen.
HandedOutIsOpen ==
  /\ client # NoClient => client \in open
  /\ connected = "yes" <=> client # NoClient
  /\ \A c \in Callers : caller[c].at = "using" => caller[c].with \in open
=============================================================================
