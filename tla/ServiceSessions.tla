--------------------------- MODULE ServiceSessions ---------------------------
(***************************************************************************)
(* The services of api.py and mcp_server.py that keep nothing between two  *)
(* requests, each as a session of one client with them: repairs of a plate *)
(* (RepairSession), drawings and their verification (DrawingExchange), and *)
(* evidence about files (EvidenceDesk).  Since the server keeps nothing,   *)
(* sessions share no state: a behaviour is that of one of them, and the    *)
(* variables of the two others stay empty.                                 *)
(***************************************************************************)
EXTENDS RepairSession, DrawingExchange, EvidenceDesk

VARIABLE service  \* the session that is open

serviceVars == <<service, sessionVars, exchangeVars, deskVars>>

NoRepair == contract = {} /\ policy = {} /\ proposals = {} /\ last = {}
NoExchange == family = "none" /\ held = 0 /\ drawing = {} /\ edits = 0 /\ verdict = {}
NoDesk == job = {} /\ replies = <<>> /\ response = {}

ServicesInit ==
    \/ service = "repair" /\ Init /\ NoExchange /\ NoDesk
    \/ service = "exchange" /\ NoRepair /\ ExchangeInit /\ NoDesk
    \/ service = "desk" /\ NoRepair /\ NoExchange /\ DeskInit

Repairs == service = "repair" /\ Next /\ UNCHANGED <<service, exchangeVars, deskVars>>
Exchanging == service = "exchange" /\ ExchangeNext /\ UNCHANGED <<service, sessionVars, deskVars>>
Asking == service = "desk" /\ DeskNext /\ UNCHANGED <<service, sessionVars, exchangeVars>>

ServicesNext == Repairs \/ Exchanging \/ Asking

ServicesSpec == ServicesInit /\ [][ServicesNext]_serviceVars
=============================================================================
