----------------------------- MODULE MCDispatch -----------------------------
(***************************************************************************)
(* Instances of Dispatch for TLC.  The VIEW of the larger ones merges states *)
(* that differ only in values the server sets again before it reads them:    *)
(* the saved masks (read only while GrabDone), onlyClient (read only while    *)
(* grabbingClient) and isItTimeToYield (set when a turn begins).              *)
(***************************************************************************)
EXTENDS Dispatch

LiveOnly ==
    <<kernelVars, buf, AllClients, ClientsWithInput, GrabDone,
      IF GrabDone THEN <<SavedAllClients, SavedClientsWithInput>> ELSE <<>>,
      grabbingClient, IF grabbingClient THEN onlyClient ELSE Nobody,
      tableVars, pc, ready, newClient, client,
      IF client = Nobody THEN FALSE ELSE isItTimeToYield,
      timesThisConnection, clientsDoomed>>
=============================================================================
