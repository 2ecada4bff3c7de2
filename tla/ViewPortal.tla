----------------------------- MODULE ViewPortal -----------------------------
(***************************************************************************)
(* ViewPortalManager (view_portal.cpp) between the main dialog, the local  *)
(* HTTP server and the browser control.  The dialog shows the welcome page *)
(* when it is made and a paper for each selection in the tree; the first   *)
(* paper comes after a page that says that the archive is being loaded.    *)
(* The server is PageService; the browser asks it over a new connection    *)
(* for each page it is told to load and reports a page it has loaded with  *)
(* an event.                                                               *)
(***************************************************************************)
EXTENDS Naturals

CONSTANTS
    Papers,         \* the papers that can be selected
    Welcome,        \* html_welcome_splash_screen
    MaxLoads,       \* bound on the pages loaded
    ArchiveGetFile  \* what the archive returns for each paper

ASSUME ViewPortalAssumption == MaxLoads \in Nat

Loads == 1 .. MaxLoads
Nothing == [load |-> 0, target |-> "none"]

VARIABLES
    html, asked, answer,  \* the variables of PageService
    listening,            \* whether the server has started
    gui,                  \* where the GUI thread is
    choice,               \* the target to be loaded last, "none" at first
    already_done,         \* the static flag of Set
    yields,               \* event loops left to yield to
    nav,                  \* what the browser is loading, and the load's number
    loads,                \* the loads so far
    shown,                \* the load whose page the browser shows, 0 for none
    pending,              \* events of the browser not yet handled
    is_viewportal_loaded

Server == INSTANCE PageService WITH
            Clients <- Loads, Pages <- {Welcome}, Names <- Papers

service == <<html, asked, answer>>
browser == <<nav, loads, shown, pending>>
dialog == <<choice, already_done, yields, is_viewportal_loaded>>
vars == <<service, listening, gui, dialog, browser>>

\* For the 16 of the code: enough for every event there can be.
MaxYields == 2

-----------------------------------------------------------------------------
(* The GUI thread.                                                         *)

\* Load: the browser drops what it is loading, or starts something.
Load(target) ==
    /\ loads < MaxLoads /\ loads' = loads + 1
    /\ nav' = [load |-> loads + 1, target |-> target]
    /\ UNCHANGED <<shown, pending>>

\* SetHtml, called by the constructor of the dialog; the page is not handed on.
SetHtml_Forgets ==
    /\ gui = "construct" /\ gui' = "set_html"
    /\ choice' = "html"
    /\ UNCHANGED <<service, listening, already_done, yields, is_viewportal_loaded, browser>>

\* SetHtml, called by the constructor of the dialog
SetHtml ==
    /\ gui = "construct" /\ gui' = "set_html"
    /\ choice' = "html"
    /\ Server!SetHtml(Welcome)
    /\ UNCHANGED <<listening, already_done, yields, is_viewportal_loaded, browser>>

LoadHtml ==
    /\ gui = "load_html" /\ gui' = "idle"
    /\ Load("html")
    /\ UNCHANGED <<service, listening, dialog>>

\* PresentPaperInViewPortal, and Set up to Set_Common
Present(paper) ==
    /\ gui = "idle" /\ loads + 2 <= MaxLoads
    /\ gui' = "set" /\ choice' = paper /\ is_viewportal_loaded' = FALSE
    /\ UNCHANGED <<service, listening, already_done, yields, browser>>

\* Set_Common: an int is thrown that neither Set nor SetHtml catches, and both
\* are noexcept.
CommonThrows ==
    /\ gui \in {"set", "set_html"} /\ ~listening
    /\ gui' = "terminated"
    /\ UNCHANGED <<service, listening, dialog, browser>>

Stop ==
    /\ gui \in {"set", "set_html"} /\ listening
    /\ gui' = IF gui = "set_html" THEN "load_html"
              ELSE IF already_done THEN "load_paper" ELSE "load_all"
    /\ nav' = Nothing
    /\ UNCHANGED <<service, listening, dialog, loads, shown, pending>>

LoadAll ==
    /\ gui = "load_all" /\ gui' = "yield"
    /\ already_done' = TRUE /\ yields' = MaxYields
    /\ Load("loading_all")
    /\ UNCHANGED <<service, listening, choice, is_viewportal_loaded>>

Yield ==
    /\ gui = "yield" /\ yields > 0 /\ yields' = yields - 1
    /\ \/ /\ pending > 0 /\ pending' = pending - 1
          /\ is_viewportal_loaded' = TRUE
       \/ UNCHANGED <<pending, is_viewportal_loaded>>
    /\ UNCHANGED <<service, listening, gui, choice, already_done, nav, loads, shown>>

\* The first paper is forgotten over the page that precedes it.
YieldsEnd_Returns ==
    /\ gui = "yield" /\ yields = 0 /\ gui' = "idle"
    /\ UNCHANGED <<service, listening, dialog, browser>>

YieldsEnd ==
    /\ gui = "yield" /\ yields = 0 /\ gui' = "load_paper"
    /\ UNCHANGED <<service, listening, dialog, browser>>

LoadPaper ==
    /\ gui = "load_paper" /\ gui' = "idle"
    /\ Load(choice)
    /\ UNCHANGED <<service, listening, dialog>>

\* The program's event loop; OnViewPortalLoaded
HandleLoaded ==
    /\ gui = "idle" /\ pending > 0 /\ pending' = pending - 1
    /\ is_viewportal_loaded' = TRUE
    /\ UNCHANGED <<service, listening, gui, choice, already_done, yields, nav, loads, shown>>

-----------------------------------------------------------------------------
(* The browser and the server.                                             *)

BrowserAsks ==
    /\ nav # Nothing
    /\ Server!Ask(nav.load, nav.target)
    /\ UNCHANGED <<listening, gui, dialog, browser>>

\* Also a load that the browser has dropped is answered.
ServerAnswers ==
    /\ \E c \in Loads : Server!Answer(c)
    /\ UNCHANGED <<listening, gui, dialog, browser>>

BrowserShows ==
    /\ nav # Nothing /\ answer[nav.load] # {}
    /\ shown' = nav.load /\ nav' = Nothing /\ pending' = pending + 1
    /\ UNCHANGED <<service, listening, gui, dialog, loads>>

-----------------------------------------------------------------------------

Init ==
    /\ Server!Init
    /\ listening \in BOOLEAN
    /\ gui = "construct" /\ choice = "none" /\ already_done = FALSE
    /\ yields = 0 /\ is_viewportal_loaded = FALSE
    /\ nav = Nothing /\ loads = 0 /\ shown = 0 /\ pending = 0

\* Bounded: no more loads. A terminated program does nothing more either.
Done ==
    /\ gui = "terminated" \/ (gui = "idle" /\ nav = Nothing /\ pending = 0)
    /\ UNCHANGED vars

GuiStep ==
    \/ SetHtml \/ LoadHtml \/ CommonThrows \/ Stop \/ LoadAll
    \/ Yield \/ YieldsEnd \/ LoadPaper \/ HandleLoaded

Next ==
    \/ GuiStep \/ BrowserAsks \/ ServerAnswers \/ BrowserShows
    \/ \E paper \in Papers : Present(paper)
    \/ Done

Spec == Init /\ [][Next]_vars

\* The GUI thread, the browser and the server's acceptor are scheduled; the
\* user need not select anything.
FairSpec ==
    /\ Spec
    /\ WF_vars(GuiStep) /\ WF_vars(BrowserAsks)
    /\ WF_vars(ServerAnswers) /\ WF_vars(BrowserShows)

-----------------------------------------------------------------------------

\* Whatever was being loaded when a paper was selected, the portal comes to
\* rest only on what was chosen last, with the content meant for it.
RestsOnChoice ==
    gui = "idle" /\ nav = Nothing =>
        /\ shown # 0 /\ asked[shown] = choice
        /\ answer[shown] = {Server!Response(choice, Welcome)}

\* A selected paper is shown unless another is selected before that.
ChoicesAreShown ==
    \A paper \in Papers :
        gui = "set" /\ choice = paper ~>
            (shown # 0 /\ asked[shown] = paper) \/ choice # paper

\* Set and SetHtml are noexcept: they never let an exception out.
NothingEscapesNoexcept == gui # "terminated"

=============================================================================
