-------------------------- MODULE ViewPortalProofs --------------------------
(***************************************************************************)
(* Where the view portal comes to rest, for any number of papers and of    *)
(* selections, and whenever the browser loads, the server answers and the  *)
(* events arrive.                                                          *)
(***************************************************************************)
EXTENDS ViewPortal, TLAPS

Asks == Papers \cup {"none", "html", "loading_all"}
Making == {"construct", "set_html", "load_html"}

PortalTypes ==
    /\ gui \in Making \cup {"idle", "set", "load_all", "yield", "load_paper", "terminated"}
    /\ choice \in Asks /\ asked \in [Loads -> Asks]
    /\ answer = [c \in Loads |-> answer[c]]
    /\ loads \in 0 .. MaxLoads /\ nav \in [load : 0 .. MaxLoads, target : Asks]

\* The welcome page is there before anything is loaded.
WelcomeFirst ==
    /\ gui # "construct" => html = Welcome
    /\ gui \in Making => loads = 0
    /\ gui \in {"set_html", "load_html"} => choice = "html"

\* A load is answered once, with what it asked for.
AnswersAreRight ==
    \A c \in Loads :
        /\ c > loads => asked[c] = "none"
        /\ answer[c] # {} => /\ asked[c] # "none"
                             /\ answer[c] = {Server!Response(asked[c], Welcome)}

\* The browser is loading what it was told last.
LoadsTheLast ==
    nav # Nothing => /\ nav.load = loads /\ loads \in Loads
                     /\ asked[loads] \in {"none", nav.target}

\* What the browser loads or shows while the GUI thread waits is the choice.
ChoiceIsLast ==
    gui = "idle" =>
        /\ loads \in Loads
        /\ nav # Nothing => nav.target = choice
        /\ nav = Nothing => shown = loads /\ asked[loads] = choice /\ answer[loads] # {}

PortalInv == PortalTypes /\ WelcomeFirst /\ AnswersAreRight /\ LoadsTheLast /\ ChoiceIsLast

-----------------------------------------------------------------------------

\* Nothing is loaded and nothing asked for.
LEMMA PortalStarts == Init => PortalInv
<1>. SUFFICES ASSUME Init PROVE PortalInv
  OBVIOUS
<1>1. PortalTypes
  BY ViewPortalAssumption DEF Init, Server!Init, PortalTypes, Making, Asks, Nothing
<1>2. WelcomeFirst /\ AnswersAreRight /\ LoadsTheLast /\ ChoiceIsLast
  BY DEF Init, Server!Init, WelcomeFirst, AnswersAreRight, LoadsTheLast, ChoiceIsLast
<1>. QED BY <1>1, <1>2 DEF PortalInv

\* The dialog: its constructor, then a selection and the event of its page.
LEMMA SetHtmlKeeps == ASSUME PortalInv, SetHtml PROVE PortalInv'
<1>1. PortalTypes'
  BY DEF PortalInv, PortalTypes, Asks, Making, SetHtml, Server!SetHtml, browser
<1>2. WelcomeFirst'
  BY DEF PortalInv, WelcomeFirst, Making, SetHtml, Server!SetHtml, browser
<1>3. AnswersAreRight'
  BY DEF PortalInv, AnswersAreRight, SetHtml, Server!SetHtml, browser
<1>4. LoadsTheLast'
  BY DEF PortalInv, LoadsTheLast, SetHtml, Server!SetHtml, browser
<1>5. ChoiceIsLast'
  BY DEF PortalInv, ChoiceIsLast, SetHtml, Server!SetHtml
<1>. QED BY <1>1, <1>2, <1>3, <1>4, <1>5 DEF PortalInv

LEMMA LoadHtmlKeeps == ASSUME PortalInv, LoadHtml PROVE PortalInv'
<1>a. /\ loads + 1 \in Loads /\ loads + 1 \in 0 .. MaxLoads
      /\ [load |-> loads + 1, target |-> "html"] # Nothing
  BY ViewPortalAssumption DEF PortalInv, PortalTypes, LoadHtml, Load, Loads, Nothing
<1>1. PortalTypes'
  BY <1>a DEF PortalInv, PortalTypes, Asks, LoadHtml, Load, service, dialog
<1>2. WelcomeFirst'
  BY DEF PortalInv, WelcomeFirst, Making, LoadHtml, Load, service
<1>3. AnswersAreRight'
  <2>1. loads' = loads + 1 /\ UNCHANGED <<asked, answer>>
    BY DEF LoadHtml, Load, service
  <2>2. \A c \in Loads : c > loads + 1 => c > loads
    BY DEF PortalInv, PortalTypes, Loads
  <2>. QED BY <2>1, <2>2 DEF PortalInv, AnswersAreRight
<1>4. LoadsTheLast'
  <2>1. /\ loads' = loads + 1 /\ UNCHANGED asked
        /\ nav'.load = loads + 1
    BY DEF LoadHtml, Load, service
  <2>2. asked[loads + 1] = "none"
    BY <1>a, ViewPortalAssumption DEF PortalInv, PortalTypes, AnswersAreRight
  <2>. QED BY <2>1, <2>2, <1>a DEF LoadsTheLast
<1>5. ChoiceIsLast'
  BY <1>a DEF PortalInv, ChoiceIsLast, WelcomeFirst, LoadHtml, Load, dialog
<1>. QED BY <1>1, <1>2, <1>3, <1>4, <1>5 DEF PortalInv

LEMMA PresentKeeps == ASSUME PortalInv, NEW paper \in Papers, Present(paper) PROVE PortalInv'
<1>1. PortalTypes'
  BY DEF PortalInv, PortalTypes, Asks, Present, service, browser
<1>2. WelcomeFirst'
  BY DEF PortalInv, WelcomeFirst, Making, Present, service
<1>3. AnswersAreRight'
  BY DEF PortalInv, AnswersAreRight, Present, service, browser
<1>4. LoadsTheLast'
  BY DEF PortalInv, LoadsTheLast, Present, service, browser
<1>5. ChoiceIsLast'
  BY DEF PortalInv, ChoiceIsLast, Present
<1>. QED BY <1>1, <1>2, <1>3, <1>4, <1>5 DEF PortalInv

LEMMA CommonThrowsKeeps == ASSUME PortalInv, CommonThrows PROVE PortalInv'
<1>1. PortalTypes'
  BY DEF PortalInv, PortalTypes, CommonThrows, service, browser, dialog
<1>2. WelcomeFirst'
  BY DEF PortalInv, WelcomeFirst, Making, CommonThrows, service
<1>3. AnswersAreRight'
  BY DEF PortalInv, AnswersAreRight, CommonThrows, service, browser
<1>4. LoadsTheLast'
  BY DEF PortalInv, LoadsTheLast, CommonThrows, service, browser
<1>5. ChoiceIsLast'
  BY DEF PortalInv, ChoiceIsLast, CommonThrows
<1>. QED BY <1>1, <1>2, <1>3, <1>4, <1>5 DEF PortalInv

LEMMA StopKeeps == ASSUME PortalInv, Stop PROVE PortalInv'
<1>1. PortalTypes'
  BY ViewPortalAssumption DEF PortalInv, PortalTypes, Asks, Making, Nothing, Stop, service,
         dialog
<1>2. WelcomeFirst'
  BY DEF PortalInv, WelcomeFirst, Making, Stop, service, dialog
<1>3. AnswersAreRight'
  BY DEF PortalInv, AnswersAreRight, Stop, service
<1>4. LoadsTheLast'
  BY DEF PortalInv, LoadsTheLast, Stop
<1>5. ChoiceIsLast'
  BY DEF PortalInv, ChoiceIsLast, Stop
<1>. QED BY <1>1, <1>2, <1>3, <1>4, <1>5 DEF PortalInv

LEMMA LoadAllKeeps == ASSUME PortalInv, LoadAll PROVE PortalInv'
<1>a. /\ loads + 1 \in Loads /\ loads + 1 \in 0 .. MaxLoads
      /\ [load |-> loads + 1, target |-> "loading_all"] # Nothing
  BY ViewPortalAssumption DEF PortalInv, PortalTypes, LoadAll, Load, Loads, Nothing
<1>1. PortalTypes'
  BY <1>a DEF PortalInv, PortalTypes, Asks, LoadAll, Load, service
<1>2. WelcomeFirst'
  BY DEF PortalInv, WelcomeFirst, Making, LoadAll, Load, service
<1>3. AnswersAreRight'
  <2>1. loads' = loads + 1 /\ UNCHANGED <<asked, answer>>
    BY DEF LoadAll, Load, service
  <2>2. \A c \in Loads : c > loads + 1 => c > loads
    BY DEF PortalInv, PortalTypes, Loads
  <2>. QED BY <2>1, <2>2 DEF PortalInv, AnswersAreRight
<1>4. LoadsTheLast'
  <2>1. /\ loads' = loads + 1 /\ UNCHANGED asked
        /\ nav'.load = loads + 1
    BY DEF LoadAll, Load, service
  <2>2. asked[loads + 1] = "none"
    BY <1>a, ViewPortalAssumption DEF PortalInv, PortalTypes, AnswersAreRight
  <2>. QED BY <2>1, <2>2, <1>a DEF LoadsTheLast
<1>5. ChoiceIsLast'
  BY DEF PortalInv, ChoiceIsLast, LoadAll, Load
<1>. QED BY <1>1, <1>2, <1>3, <1>4, <1>5 DEF PortalInv

LEMMA YieldKeeps == ASSUME PortalInv, Yield PROVE PortalInv'
<1>1. PortalTypes'
  BY DEF PortalInv, PortalTypes, Yield, service
<1>2. WelcomeFirst'
  BY DEF PortalInv, WelcomeFirst, Yield, service
<1>3. AnswersAreRight'
  BY DEF PortalInv, AnswersAreRight, Yield, service
<1>4. LoadsTheLast'
  BY DEF PortalInv, LoadsTheLast, Yield, service
<1>5. ChoiceIsLast'
  BY DEF PortalInv, ChoiceIsLast, Yield
<1>. QED BY <1>1, <1>2, <1>3, <1>4, <1>5 DEF PortalInv

LEMMA YieldsEndKeeps == ASSUME PortalInv, YieldsEnd PROVE PortalInv'
<1>1. PortalTypes'
  BY DEF PortalInv, PortalTypes, YieldsEnd, service, browser, dialog
<1>2. WelcomeFirst'
  BY DEF PortalInv, WelcomeFirst, Making, YieldsEnd, service
<1>3. AnswersAreRight'
  BY DEF PortalInv, AnswersAreRight, YieldsEnd, service, browser
<1>4. LoadsTheLast'
  BY DEF PortalInv, LoadsTheLast, YieldsEnd, service, browser
<1>5. ChoiceIsLast'
  BY DEF PortalInv, ChoiceIsLast, YieldsEnd
<1>. QED BY <1>1, <1>2, <1>3, <1>4, <1>5 DEF PortalInv

LEMMA LoadPaperKeeps == ASSUME PortalInv, LoadPaper PROVE PortalInv'
<1>a. /\ loads + 1 \in Loads /\ loads + 1 \in 0 .. MaxLoads
      /\ [load |-> loads + 1, target |-> choice] # Nothing
  BY ViewPortalAssumption DEF PortalInv, PortalTypes, LoadPaper, Load, Loads, Nothing
<1>1. PortalTypes'
  BY <1>a DEF PortalInv, PortalTypes, LoadPaper, Load, service, dialog
<1>2. WelcomeFirst'
  BY DEF PortalInv, WelcomeFirst, Making, LoadPaper, Load, service
<1>3. AnswersAreRight'
  <2>1. loads' = loads + 1 /\ UNCHANGED <<asked, answer>>
    BY DEF LoadPaper, Load, service
  <2>2. \A c \in Loads : c > loads + 1 => c > loads
    BY DEF PortalInv, PortalTypes, Loads
  <2>. QED BY <2>1, <2>2 DEF PortalInv, AnswersAreRight
<1>4. LoadsTheLast'
  <2>1. /\ loads' = loads + 1 /\ UNCHANGED asked
        /\ nav'.load = loads + 1
    BY DEF LoadPaper, Load, service
  <2>2. asked[loads + 1] = "none"
    BY <1>a, ViewPortalAssumption DEF PortalInv, PortalTypes, AnswersAreRight
  <2>. QED BY <2>1, <2>2, <1>a DEF LoadsTheLast
<1>5. ChoiceIsLast'
  BY <1>a DEF PortalInv, ChoiceIsLast, LoadPaper, Load, dialog
<1>. QED BY <1>1, <1>2, <1>3, <1>4, <1>5 DEF PortalInv

LEMMA HandleLoadedKeeps == ASSUME PortalInv, HandleLoaded PROVE PortalInv'
<1>1. PortalTypes'
  BY DEF PortalInv, PortalTypes, HandleLoaded, service
<1>2. WelcomeFirst'
  BY DEF PortalInv, WelcomeFirst, HandleLoaded, service
<1>3. AnswersAreRight'
  BY DEF PortalInv, AnswersAreRight, HandleLoaded, service
<1>4. LoadsTheLast'
  BY DEF PortalInv, LoadsTheLast, HandleLoaded, service
<1>5. ChoiceIsLast'
  BY DEF PortalInv, ChoiceIsLast, HandleLoaded, service
<1>. QED BY <1>1, <1>2, <1>3, <1>4, <1>5 DEF PortalInv

\* The browser and the server, at any time.
LEMMA BrowserAsksKeeps == ASSUME PortalInv, BrowserAsks PROVE PortalInv'
<1>1. PortalTypes'
  BY DEF PortalInv, PortalTypes, BrowserAsks, Server!Ask, dialog, browser
<1>2. WelcomeFirst'
  BY DEF PortalInv, WelcomeFirst, BrowserAsks, Server!Ask, dialog, browser
<1>3. AnswersAreRight'
  <2>1. /\ nav.load = loads /\ loads \in Loads /\ asked' = [asked EXCEPT ![loads] = nav.target]
        /\ asked[loads] = "none" /\ UNCHANGED <<html, answer, loads>>
    BY DEF PortalInv, LoadsTheLast, BrowserAsks, Server!Ask, browser
  <2>2. answer[loads] = {}
    BY <2>1 DEF PortalInv, AnswersAreRight
  <2>3. \A c \in Loads : c # loads => asked'[c] = asked[c]
    BY <2>1 DEF PortalInv
  <2>. QED BY <2>1, <2>2, <2>3 DEF PortalInv, AnswersAreRight, Loads
<1>4. LoadsTheLast'
  BY DEF PortalInv, LoadsTheLast, BrowserAsks, Server!Ask, browser
<1>5. ChoiceIsLast'
  BY DEF PortalInv, ChoiceIsLast, BrowserAsks, Server!Ask, dialog, browser
<1>. QED BY <1>1, <1>2, <1>3, <1>4, <1>5 DEF PortalInv

LEMMA ServerAnswersKeeps == ASSUME PortalInv, ServerAnswers PROVE PortalInv'
<1>1. PortalTypes'
  BY DEF PortalInv, PortalTypes, ServerAnswers, Server!Answer, dialog, browser
<1>2. WelcomeFirst'
  BY DEF PortalInv, WelcomeFirst, ServerAnswers, Server!Answer, dialog, browser
<1>3. AnswersAreRight'
  <2>1. PICK c \in Loads : Server!Answer(c)
    BY DEF ServerAnswers
  <2>2. html = Welcome
    BY <2>1, ViewPortalAssumption DEF PortalInv, WelcomeFirst, AnswersAreRight, Server!Answer,
           Loads, Making
  <2>3. /\ answer' = [answer EXCEPT ![c] = {Server!Response(asked[c], Welcome)}]
        /\ asked[c] # "none" /\ UNCHANGED <<asked, loads>>
    BY <2>1, <2>2 DEF ServerAnswers, Server!Answer, browser
  <2>4. /\ answer'[c] = {Server!Response(asked[c], Welcome)}
        /\ \A d \in Loads : d # c => answer'[d] = answer[d]
    BY <2>3 DEF PortalInv, PortalTypes
  <2>. QED BY <2>3, <2>4 DEF PortalInv, AnswersAreRight
<1>4. LoadsTheLast'
  BY DEF PortalInv, LoadsTheLast, ServerAnswers, Server!Answer, browser
<1>5. ChoiceIsLast'
  BY DEF PortalInv, ChoiceIsLast, ServerAnswers, Server!Answer, dialog, browser
<1>. QED BY <1>1, <1>2, <1>3, <1>4, <1>5 DEF PortalInv

LEMMA BrowserShowsKeeps == ASSUME PortalInv, BrowserShows PROVE PortalInv'
<1>1. PortalTypes'
  BY ViewPortalAssumption DEF PortalInv, PortalTypes, Asks, Nothing, BrowserShows, service,
         dialog
<1>2. WelcomeFirst'
  BY DEF PortalInv, WelcomeFirst, BrowserShows, service, dialog
<1>3. AnswersAreRight'
  BY DEF PortalInv, AnswersAreRight, BrowserShows, service
<1>4. LoadsTheLast'
  BY DEF PortalInv, LoadsTheLast, BrowserShows
<1>5. ChoiceIsLast'
  BY DEF PortalInv, ChoiceIsLast, AnswersAreRight, LoadsTheLast, BrowserShows, service, dialog
<1>. QED BY <1>1, <1>2, <1>3, <1>4, <1>5 DEF PortalInv

\* The dialog, the browser and the server keep the invariant.
THEOREM PortalInvariant == Spec => []PortalInv
<1>1. PortalInv /\ [Next]_vars => PortalInv'
  <2>1. ASSUME PortalInv, UNCHANGED vars PROVE PortalInv'
    BY <2>1 DEF vars, service, browser, dialog, PortalInv, PortalTypes, WelcomeFirst,
           AnswersAreRight, LoadsTheLast, ChoiceIsLast
  <2>. QED BY <2>1, SetHtmlKeeps, LoadHtmlKeeps, PresentKeeps, CommonThrowsKeeps, StopKeeps,
              LoadAllKeeps, YieldKeeps, YieldsEndKeeps, LoadPaperKeeps, HandleLoadedKeeps,
              BrowserAsksKeeps, ServerAnswersKeeps, BrowserShowsKeeps
         DEF Next, GuiStep, Done
<1>. QED BY <1>1, PortalStarts, PTL DEF Spec

\* The portal comes to rest only on what was chosen last, with the content that
\* the server has for it, for any papers and any number of selections.
THEOREM PortalRestsOnChoice == Spec => []RestsOnChoice
<1>1. PortalInv => RestsOnChoice
  BY DEF PortalInv, ChoiceIsLast, AnswersAreRight, Loads, RestsOnChoice
<1>. QED BY <1>1, PortalInvariant, PTL

=============================================================================
