---------------------------- MODULE PageService ----------------------------
(***************************************************************************)
(* What the local HTTP server promises the view portal, with no threads,   *)
(* sockets or locks: there is one current page, it is replaced atomically, *)
(* and each connection that has sent a request gets one answer, computed   *)
(* from its own request and from the page current at one moment after it   *)
(* asked.  HttpServer is shown to implement this module.                   *)
(***************************************************************************)
EXTENDS HttpResponse

CONSTANT Clients

VARIABLES
    html,     \* the current page
    asked,    \* asked[c]: the request of connection c, "none" before it
    answer    \* answer[c]: the set of answers made to c, at most one

serviceVars == <<html, asked, answer>>

Init ==
    /\ html = "empty"
    /\ asked = [c \in Clients |-> "none"]
    /\ answer = [c \in Clients |-> {}]

SetHtml(page) == html' = page /\ UNCHANGED <<asked, answer>>

Ask(c, target) ==
    /\ asked[c] = "none"
    /\ asked' = [asked EXCEPT ![c] = target]
    /\ UNCHANGED <<html, answer>>

Answer(c) ==
    /\ asked[c] # "none" /\ answer[c] = {}
    /\ answer' = [answer EXCEPT ![c] = {Response(asked[c], html)}]
    /\ UNCHANGED <<html, asked>>

Next ==
    \/ \E page \in Pages : SetHtml(page)
    \/ \E c \in Clients : Answer(c) \/ \E t \in Targets : Ask(c, t)

Spec == Init /\ [][Next]_serviceVars

=============================================================================
