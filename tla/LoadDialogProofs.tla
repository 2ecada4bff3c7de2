-------------------------- MODULE LoadDialogProofs --------------------------
(***************************************************************************)
(* What the loads and their waiting dialogs keep to, for any number of     *)
(* loads and however many dialogs are closed early.                        *)
(***************************************************************************)
EXTENDS LoadDialog, TLAPS

Working == {"start", "work", "put_in", "flag", "post"}
After == {"report", "message", "enable_load", "enable_unload", "enable_search", "join"}

EventKinds == {"progress", "increment", "destroy"}
EventLists == Seq([what : EventKinds, dialog : Dialogs])

Types ==
    /\ can_close_early \in BOOLEAN /\ is_loaded \in BOOLEAN
    /\ load \in [Kinds -> BOOLEAN] /\ unload \in [Kinds -> BOOLEAN]
    /\ loaded \in [Kinds -> {"no", "partly", "yes"}]
    /\ gui \in {"idle", "modal", "dead"} \cup After
    /\ kind \in Kinds \cup {"whittle"} /\ dlg \in 0 .. MaxDialogs /\ i \in Nat
    /\ dialog \in [Dialogs -> {"none", "modal", "hidden", "destroyed"}]
    /\ events \in EventLists

\* Where the worker is while the GUI thread is where it is.
Control ==
    /\ gui = "idle" => worker = "none"
    /\ gui = "dead" => worker \in {"assert", "terminate"}
    /\ gui \in {"modal"} \cup After => worker \in Working \cup {"exited"} /\ dlg \in Dialogs
    /\ gui \in After /\ ~can_close_early => worker = "exited"
    /\ gui \in {"enable_load", "enable_unload"} => kind \in Kinds
    /\ gui \in {"report", "message", "enable_search"} => kind = "xapian"
    /\ worker = "put_in" => kind = "whittle"

\* Only the dialog made last can be modal.
DialogsInOrder ==
    /\ \A d \in Dialogs : d < dlg => dialog[d] # "modal"
    /\ gui \in {"idle"} \cup After /\ dlg \in Dialogs => dialog[dlg] # "modal"
    /\ worker \in Working => dialog[dlg] \in {"modal", "hidden"}

\* A dialog is destroyed by the last of its events.
DestroyComesLast ==
    /\ \A n \in DOMAIN events :
          /\ events[n].dialog <= dlg
          /\ events[n].what = "destroy" /\ events[n].dialog = dlg => worker \notin Working
    /\ \A m, n \in DOMAIN events :
          m < n /\ events[m].what = "destroy" => events[m].dialog # events[n].dialog

\* The flag is set when the load is done, and never otherwise.
FlagIsTrue ==
    /\ worker \in {"start", "work", "put_in", "flag"} => is_loaded = FALSE
    /\ worker = "flag" => kind \in Kinds /\ loaded[kind] = "yes"
    /\ gui \in {"modal"} \cup After /\ is_loaded = TRUE => kind \in Kinds /\ loaded[kind] = "yes"

SearchAgrees ==
    search = TRUE =>
        \/ loaded["xapian"] = "yes" /\ (gui = "join" /\ kind = "xapian" => is_loaded = TRUE)
        \/ kind = "xapian" /\ gui \notin {"idle", "join"}

LoadAgrees(k) == load[k] = TRUE <=> loaded[k] # "yes"
UnloadAgrees(k) == unload[k] = TRUE <=> loaded[k] = "yes"

\* The buttons of what is being loaded are behind until the handler has come to them.
ButtonsAgree ==
    ~can_close_early =>
        /\ \A k \in Kinds : k # kind \/ gui \in {"idle", "enable_unload", "enable_search", "join"}
                                => LoadAgrees(k)
        /\ \A k \in Kinds : k # kind \/ gui \in {"idle", "enable_search", "join"}
                                => UnloadAgrees(k)
        /\ kind \in Kinds /\ worker \in {"start", "work"} => loaded[kind] # "yes"
        /\ kind \in Kinds /\ worker \in {"post", "exited"} =>
              (is_loaded = TRUE <=> loaded[kind] = "yes")

Models == {Model(d) : d \in Dialogs}
Samplers == {Sampler(d) : d \in Dialogs}
Contexts == {Context(m, d, p) : m \in Models, d \in Dialogs, p \in Nat}

PointerTypes ==
    aimanager \in [model : Models \cup {Null}, vocab : Models \cup {Null},
                   smpl : Samplers \cup {Null}, ctx : Contexts \cup {Null}]

\* What the pointers of g_aimanager have to do with each other, and with the buttons.
PointersAgree ==
    /\ aimanager.model = Null <=> aimanager.smpl = Null
    /\ aimanager.model = Null => aimanager.ctx = Null
    /\ aimanager.model # Null => aimanager.vocab = aimanager.model
    /\ loaded["model"] \in {"no", "yes"}
    /\ loaded["model"] = "no" => aimanager.model = Null

ModelInv == PointerTypes /\ PointersAgree /\ HeldObjectsAreLive /\ DecodesWithOneModel
EventsInv == DestroyComesLast /\ EventsFindTheirDialog
HandlerInv == Control /\ DialogsInOrder /\ FlagIsTrue /\ SearchAgrees /\ ButtonsAgree /\ DeathsAreKnown

LoadInv == Types /\ HandlerInv /\ EventsInv /\ ModelInv

-----------------------------------------------------------------------------
(* Steps that leave a part of the state alone.                             *)

\* What leaves the language model alone keeps its half of the invariant.
LEMMA ModelAside ==
    ASSUME LoadInv, UNCHANGED <<aimanager, live, can_close_early>>,
           loaded'["model"] = loaded["model"],
           worker' = "put_in" => worker = "put_in" /\ UNCHANGED <<dlg, i>>
    PROVE  ModelInv'
BY DEF LoadInv, ModelInv, PointerTypes, PointersAgree, HeldObjectsAreLive, Held,
       DecodesWithOneModel

\* What leaves the queue and the dialogs alone keeps theirs.
LEMMA EventsAside ==
    ASSUME LoadInv, UNCHANGED <<events, dialog, dlg>>,
           worker' \in Working => worker \in Working
    PROVE  EventsInv'
BY DEF LoadInv, EventsInv, DestroyComesLast, EventsFindTheirDialog

\* What is in a sequence is of its type.
LEMMA Elements ==
    ASSUME NEW S, NEW s \in Seq(S)
    PROVE  \A n \in DOMAIN s : s[n] \in S
OBVIOUS

\* A worker at work has a handler waiting for it, and a dialog.
LEMMA Busy ==
    ASSUME LoadInv, worker \in Working
    PROVE  gui \in {"modal"} \cup After /\ dlg \in Dialogs
BY DEF LoadInv, HandlerInv, Types, Control, Working

\* Where each handler goes on when its dialog is closed.
LEMMA Reports ==
    ASSUME LoadInv
    PROVE  \/ Report = "report" /\ kind = "xapian"
           \/ Report = "join" /\ kind = "whittle"
           \/ Report = "enable_load" /\ kind \in Kinds \ {"xapian"}
BY DEF LoadInv, Types, Report

\* An event for the dialog in hand, which is not the last while the worker has more to do.
LEMMA Posts ==
    ASSUME LoadInv, NEW what \in EventKinds, Post(what),
           worker \in Working, UNCHANGED <<dialog, dlg>>,
           what = "destroy" => worker' \notin Working
    PROVE  /\ EventsInv'
           /\ events' \in EventLists
<1>. DEFINE e == [what |-> what, dialog |-> dlg]
<1>1. /\ events' = Append(events, e) /\ dlg \in Dialogs
      /\ e \in [what : EventKinds, dialog : Dialogs]
  BY Busy DEF LoadInv, Post
<1>2. events \in EventLists
  BY DEF LoadInv, Types
<1>3. /\ events' \in EventLists
      /\ Len(events) \in Nat /\ DOMAIN events = 1 .. Len(events)
      /\ DOMAIN events' = 1 .. Len(events) + 1 /\ events'[Len(events) + 1] = e
      /\ \A n \in 1 .. Len(events) : events'[n] = events[n]
  BY <1>1, <1>2 DEF EventLists
<1>4. \A n \in 1 .. Len(events) + 1 : n \in 1 .. Len(events) \/ n = Len(events) + 1
  BY <1>3
<1>5. e.what = what /\ e.dialog = dlg
  OBVIOUS
<1>. HIDE DEF e
<1>6. \A n \in 1 .. Len(events) : events[n].what = "destroy" => events[n].dialog # dlg
  BY <1>3 DEF LoadInv, EventsInv, DestroyComesLast
<1>7. DestroyComesLast'
  BY <1>1, <1>3, <1>4, <1>5, <1>6 DEF LoadInv, EventsInv, DestroyComesLast, Dialogs
<1>8. EventsFindTheirDialog'
  BY <1>3, <1>4, <1>5 DEF LoadInv, EventsInv, EventsFindTheirDialog, HandlerInv,
         DialogsInOrder
<1>. QED BY <1>3, <1>7, <1>8 DEF EventsInv

\* A model, a sampler and a context are never the same object.
LEMMA Distinct ==
    /\ Null \notin Models /\ Null \notin Samplers /\ Null \notin Contexts
    /\ Models \cap Samplers = {} /\ Models \cap Contexts = {} /\ Samplers \cap Contexts = {}
<1>1. /\ \A x \in Models : x # Null /\ x[1] = "model"
      /\ \A x \in Samplers : x # Null /\ x[1] = "sampler"
      /\ \A x \in Contexts : x # Null /\ x[1] = "context"
  BY DEF Models, Samplers, Contexts, Model, Sampler, Context, Null
<1>. QED BY <1>1

-----------------------------------------------------------------------------
(* The invariant.                                                          *)

\* The program starts with no dialog, no worker and nothing loaded.
LEMMA LoadStarts == Init => LoadInv
<1>. SUFFICES ASSUME Init PROVE LoadInv
  OBVIOUS
<1>1. Types
  <2>1. <<>> \in EventLists /\ 0 \in 0 .. MaxDialogs
    BY LoadDialogAssumption DEF EventLists
  <2>. QED BY <2>1 DEF Init, Types, Kinds
<1>2. HandlerInv
  BY DEF Init, HandlerInv, Control, DialogsInOrder, FlagIsTrue, SearchAgrees, ButtonsAgree,
         LoadAgrees, UnloadAgrees, DeathsAreKnown, After, Working, Dialogs
<1>3. EventsInv
  BY DEF Init, EventsInv, DestroyComesLast, EventsFindTheirDialog
<1>4. ModelInv
  BY DEF Init, ModelInv, PointerTypes, PointersAgree, HeldObjectsAreLive, Held,
         DecodesWithOneModel, Kinds
<1>. QED BY <1>1, <1>2, <1>3, <1>4 DEF LoadInv

\* The GUI thread at rest: no worker is left from the load before.
LEMMA ClickKeeps ==
    ASSUME LoadInv, NEW k \in Kinds \cup {"whittle"}, Click(k)
    PROVE  LoadInv'
<1>a. dlg \in Nat /\ dlg + 1 \in Dialogs /\ dlg' \in 0 .. MaxDialogs
  BY LoadDialogAssumption DEF LoadInv, Types, Click, Dialogs
<1>1. Types'
  BY <1>a DEF LoadInv, Types, Click, buttons, fixed
<1>2. Control'
  BY <1>a DEF LoadInv, HandlerInv, Control, After, Working, Click
<1>3. DialogsInOrder'
  <2>1. \A d \in Dialogs : d < dlg + 1 => d < dlg \/ d = dlg
    BY <1>a DEF Dialogs
  <2>2. /\ gui = "idle" /\ gui' = "modal" /\ worker' = "start" /\ dlg' = dlg + 1
        /\ dialog' = [dialog EXCEPT ![dlg + 1] = "modal"]
    BY DEF Click
  <2>3. \A d \in Dialogs : d < dlg + 1 => d # dlg + 1 /\ dialog'[d] = dialog[d]
    BY <1>a, <2>2 DEF LoadInv, Dialogs
  <2>. QED BY <1>a, <2>1, <2>2, <2>3 DEF LoadInv, HandlerInv, DialogsInOrder, Types, After
<1>4. FlagIsTrue'
  BY <1>a DEF LoadInv, HandlerInv, FlagIsTrue, Click
<1>5. SearchAgrees'
  BY <1>a DEF LoadInv, HandlerInv, SearchAgrees, Click, buttons
<1>6. ButtonsAgree'
  BY <1>a DEF LoadInv, HandlerInv, ButtonsAgree, LoadAgrees, UnloadAgrees, Click, buttons,
         fixed
<1>7. DeathsAreKnown'
  BY <1>a DEF LoadInv, HandlerInv, DeathsAreKnown, Click
<1>8. EventsInv'
  <2>1. \A n \in DOMAIN events : events[n].dialog \in Dialogs /\ events[n].dialog <= dlg
    <3>1. events \in Seq([what : EventKinds, dialog : Dialogs])
      BY DEF LoadInv, Types, EventLists
    <3>2. \A n \in DOMAIN events : events[n] \in [what : EventKinds, dialog : Dialogs]
      BY <3>1, Elements
    <3>. QED BY <3>2 DEF LoadInv, EventsInv, DestroyComesLast
  <2>2. \A d \in Dialogs : d <= dlg => dialog'[d] = dialog[d]
    BY <1>a DEF LoadInv, Click, Dialogs
  <2>3. DestroyComesLast'
    BY <1>a, <2>1 DEF LoadInv, EventsInv, DestroyComesLast, Click, Dialogs
  <2>4. EventsFindTheirDialog'
    BY <2>1, <2>2 DEF LoadInv, EventsInv, EventsFindTheirDialog, Click
  <2>. QED BY <2>3, <2>4 DEF EventsInv
<1>9. ModelInv'
  BY ModelAside DEF Click, buttons, fixed, ai
<1>. QED BY <1>1, <1>2, <1>3, <1>4, <1>5, <1>6, <1>7, <1>8, <1>9 DEF LoadInv, HandlerInv

\* The worker, one lemma for each of its steps.
LEMMA WorkerStartKeeps == ASSUME LoadInv, WorkerStart PROVE LoadInv'
<1>a. EventsInv' /\ events' \in EventLists
  <2>1. CASE Post("progress")
    BY <2>1, Posts DEF WorkerStart, Die, locals, EventKinds, Working
  <2>2. CASE events' = events
    BY <2>2, EventsAside DEF WorkerStart, Die, locals, Working, LoadInv, Types
  <2>. QED BY <2>1, <2>2 DEF WorkerStart, Die
<1>1. Types'
  BY <1>a DEF LoadInv, Types, WorkerStart, Die, buttons, fixed, locals
<1>2. Control'
  BY <1>a DEF LoadInv, HandlerInv, Control, After, Working, WorkerStart, Die, buttons, fixed,
         locals
<1>3. DialogsInOrder'
  BY <1>a DEF LoadInv, HandlerInv, DialogsInOrder, After, Working, WorkerStart, Die, locals
<1>4. FlagIsTrue'
  BY <1>a DEF LoadInv, HandlerInv, FlagIsTrue, WorkerStart, Die
<1>5. SearchAgrees'
  BY <1>a DEF LoadInv, HandlerInv, SearchAgrees, WorkerStart, Die, buttons, locals
<1>6. ButtonsAgree'
  BY <1>a DEF LoadInv, HandlerInv, ButtonsAgree, LoadAgrees, UnloadAgrees, WorkerStart, Die,
         buttons, fixed, locals
<1>7. DeathsAreKnown'
  BY <1>a DEF LoadInv, HandlerInv, DeathsAreKnown, Types, ButtonsAgree, WorkerStart, Die,
         buttons, fixed, locals
<1>8. EventsInv'
  BY <1>a
<1>9. ModelInv'
  BY ModelAside DEF WorkerStart, Die, buttons, fixed, ai
<1>. QED BY <1>1, <1>2, <1>3, <1>4, <1>5, <1>6, <1>7, <1>8, <1>9 DEF LoadInv, HandlerInv

LEMMA WorkerLoadKeeps == ASSUME LoadInv, WorkerLoad PROVE LoadInv'
<1>a. EventsInv' /\ events' \in EventLists
  <2>1. CASE Post("progress")
    BY <2>1, Posts DEF WorkerLoad, locals, EventKinds, Working
  <2>2. CASE events' = events
    BY <2>2, EventsAside DEF WorkerLoad, locals, Working, LoadInv, Types
  <2>. QED BY <2>1, <2>2 DEF WorkerLoad
<1>b. /\ loaded' \in [Kinds -> {"no", "partly", "yes"}]
      /\ \A k \in Kinds : k # kind => loaded'[k] = loaded[k]
      /\ kind \in {"papers", "xapian"} /\ worker = "work"
      /\ \/ worker' = "flag" /\ loaded'[kind] = "yes"
         \/ worker' = "post" /\ loaded'[kind] \in {loaded[kind], "no", "partly"}
  BY DEF LoadInv, Types, WorkerLoad
<1>1. Types'
  BY <1>a, <1>b DEF LoadInv, Types, WorkerLoad, buttons, fixed, locals
<1>2. Control'
  BY <1>a, <1>b DEF LoadInv, HandlerInv, Control, Working, WorkerLoad, buttons, fixed, locals
<1>3. DialogsInOrder'
  BY <1>a, <1>b DEF LoadInv, HandlerInv, DialogsInOrder, Working, WorkerLoad, locals
<1>4. FlagIsTrue'
  BY <1>a, <1>b DEF LoadInv, HandlerInv, FlagIsTrue, Kinds, WorkerLoad, locals
<1>5. SearchAgrees'
  BY <1>a, <1>b DEF LoadInv, HandlerInv, SearchAgrees, Kinds, Control, FlagIsTrue, WorkerLoad,
         buttons, locals
<1>6. ButtonsAgree'
  BY <1>a, <1>b DEF LoadInv, HandlerInv, ButtonsAgree, Control, FlagIsTrue, LoadAgrees,
         UnloadAgrees, After, WorkerLoad, buttons, fixed, locals
<1>7. DeathsAreKnown'
  BY <1>a, <1>b DEF LoadInv, HandlerInv, DeathsAreKnown, WorkerLoad
<1>8. EventsInv'
  BY <1>a
<1>9. ModelInv'
  <2>1. loaded'["model"] = loaded["model"]
    BY <1>b DEF Kinds
  <2>. QED BY <2>1, ModelAside DEF WorkerLoad, buttons, fixed, ai
<1>. QED BY <1>1, <1>2, <1>3, <1>4, <1>5, <1>6, <1>7, <1>8, <1>9 DEF LoadInv, HandlerInv

LEMMA WorkerLoadModelKeeps == ASSUME LoadInv, WorkerLoadModel PROVE LoadInv'
<1>a. /\ Model(dlg) \in Models /\ Sampler(dlg) \in Samplers
      /\ Model(dlg) # Null /\ Sampler(dlg) # Null
  BY Busy, Distinct DEF WorkerLoadModel, Working, Models, Samplers
<1>b. /\ worker = "work" /\ kind = "model" /\ UNCHANGED <<can_close_early, dlg, i>>
      /\ worker' \in {"flag", "terminate"}
      /\ \/ UNCHANGED ai /\ loaded' \in {loaded, [loaded EXCEPT !["model"] = "yes"]}
         \/ LoadModel /\ loaded' = [loaded EXCEPT !["model"] = "yes"]
  BY DEF WorkerLoadModel, Die, buttons, fixed, locals
<1>c. ~can_close_early => /\ aimanager.model = Null /\ aimanager.smpl = Null /\ aimanager.ctx = Null
  BY <1>b DEF LoadInv, HandlerInv, ButtonsAgree, ModelInv, PointersAgree, Kinds
<1>1. Types'
  BY DEF LoadInv, Types, WorkerLoadModel, Die, buttons, fixed, locals
<1>2. Control'
  BY DEF LoadInv, HandlerInv, Control, After, Working, WorkerLoadModel, Die, buttons, fixed,
         locals
<1>3. DialogsInOrder'
  BY DEF LoadInv, HandlerInv, DialogsInOrder, After, Working, WorkerLoadModel, Die, locals
<1>4. FlagIsTrue'
  BY DEF LoadInv, HandlerInv, FlagIsTrue, Types, WorkerLoadModel, Die, locals
<1>5. SearchAgrees'
  BY DEF LoadInv, HandlerInv, SearchAgrees, Types, Kinds, WorkerLoadModel, Die, buttons,
         locals
<1>6. ButtonsAgree'
  BY DEF LoadInv, HandlerInv, ButtonsAgree, Types, Control, LoadAgrees, UnloadAgrees,
         WorkerLoadModel, Die, buttons, fixed, locals
<1>7. DeathsAreKnown'
  BY DEF LoadInv, HandlerInv, DeathsAreKnown, WorkerLoadModel, Die, locals
<1>8. EventsInv'
  BY EventsAside DEF Working, WorkerLoadModel, Die, locals
<1>9. PointerTypes'
  <2>1. CASE UNCHANGED ai
    BY <2>1, <1>b DEF LoadInv, ModelInv, PointerTypes, ai
  <2>2. CASE LoadModel
    BY <2>2, <1>a, <1>b, <1>c DEF LoadInv, ModelInv, PointerTypes, LoadModel
  <2>. QED BY <2>1, <2>2, <1>b
<1>10. PointersAgree'
  <2>1. CASE UNCHANGED ai
    BY <2>1, <1>b DEF LoadInv, ModelInv, PointersAgree, Types, ai
  <2>2. CASE LoadModel
    <3>1. /\ aimanager'.model = Model(dlg) /\ aimanager'.vocab = Model(dlg)
          /\ aimanager'.smpl = Sampler(dlg)
      BY <2>2 DEF LoadInv, ModelInv, LoadModel
    <3>2. loaded'["model"] \in {"no", "yes"} /\ (loaded'["model"] = "no" => loaded["model"] = "no")
      BY <1>b DEF LoadInv, ModelInv, PointersAgree, Types
    <3>3. loaded'["model"] = "no" => UNCHANGED ai
      BY <1>b DEF LoadInv, Types
    <3>. QED BY <1>a, <3>1, <3>2, <3>3 DEF LoadInv, ModelInv, PointersAgree, ai
  <2>. QED BY <2>1, <2>2, <1>b
<1>11. HeldObjectsAreLive'
  <2>1. CASE UNCHANGED ai
    BY <2>1, <1>b DEF LoadInv, ModelInv, HeldObjectsAreLive, Held, PointersAgree, ai
  <2>2. CASE LoadModel
    BY <2>2, <1>a, <1>b, <1>c DEF LoadInv, ModelInv, HeldObjectsAreLive, Held, PointersAgree,
           LoadModel
  <2>. QED BY <2>1, <2>2, <1>b
<1>12. DecodesWithOneModel'
  BY <1>b DEF DecodesWithOneModel
<1>. QED BY <1>1, <1>2, <1>3, <1>4, <1>5, <1>6, <1>7, <1>8, <1>9, <1>10, <1>11, <1>12
         DEF LoadInv, HandlerInv, ModelInv

LEMMA WorkerContextKeeps == ASSUME LoadInv, WorkerContext PROVE LoadInv'
<1>a. PICK ctx \in Contexts \cup {Null} :
            /\ NewContext(ctx) \/ (ctx = Null /\ UNCHANGED ai /\ worker' = "assert")
            /\ ctx # Null => aimanager.model # Null
            /\ worker' = "put_in" => ctx = Context(aimanager.model, dlg, i) /\ ctx # Null
  <2>1. aimanager.model # Null => Context(aimanager.model, dlg, i) \in Contexts
    BY Busy DEF LoadInv, Types, ModelInv, PointerTypes, Contexts, WorkerContext, Working
  <2>2. Null \in Contexts \cup {Null}
    OBVIOUS
  <2>3. CASE worker' = "put_in"
    <3>1. aimanager.model # Null /\ NewContext(Context(aimanager.model, dlg, i))
      BY <2>3 DEF WorkerContext, Die
    <3>. QED BY <3>1, <2>1, <2>3, Distinct
  <2>4. CASE worker' # "put_in"
    BY <2>2, <2>4 DEF WorkerContext, Die
  <2>. QED BY <2>3, <2>4
<1>b. UNCHANGED <<can_close_early, dlg, i, loaded>>
  BY DEF WorkerContext, buttons, fixed, locals
<1>c. /\ aimanager.model \in Models \cup {Null} /\ aimanager.smpl \in Samplers \cup {Null}
      /\ aimanager.ctx \in Contexts \cup {Null} /\ aimanager'.model = aimanager.model
      /\ aimanager'.smpl = aimanager.smpl /\ aimanager'.vocab = aimanager.vocab
      /\ NewContext(ctx) => aimanager'.ctx = ctx
  BY <1>a DEF LoadInv, ModelInv, PointerTypes, NewContext, ai
<1>1. Types'
  BY DEF LoadInv, Types, WorkerContext, Die, buttons, fixed, locals
<1>2. Control'
  BY DEF LoadInv, HandlerInv, Control, After, Working, WorkerContext, Die, buttons, fixed,
         locals
<1>3. DialogsInOrder'
  BY DEF LoadInv, HandlerInv, DialogsInOrder, After, Working, WorkerContext, Die, locals
<1>4. FlagIsTrue'
  BY DEF LoadInv, HandlerInv, FlagIsTrue, WorkerContext, Die
<1>5. SearchAgrees'
  BY DEF LoadInv, HandlerInv, SearchAgrees, WorkerContext, Die, buttons, locals
<1>6. ButtonsAgree'
  BY DEF LoadInv, HandlerInv, ButtonsAgree, Kinds, LoadAgrees, UnloadAgrees, WorkerContext,
         Die, buttons, fixed, locals
<1>7. DeathsAreKnown'
  BY DEF LoadInv, HandlerInv, DeathsAreKnown, WorkerContext, Die, ai, locals
<1>8. EventsInv'
  BY EventsAside DEF Working, WorkerContext, Die, locals
<1>9. PointerTypes'
  <2>1. CASE UNCHANGED ai
    BY <2>1, <1>a, <1>b DEF LoadInv, ModelInv, PointerTypes, ai
  <2>2. CASE NewContext(ctx)
    BY <2>2, <1>a, <1>b, <1>c, Distinct DEF LoadInv, ModelInv, PointerTypes, NewContext
  <2>. QED BY <2>1, <2>2, <1>a
<1>10. PointersAgree'
  <2>1. CASE UNCHANGED ai
    BY <2>1, <1>a, <1>b DEF LoadInv, ModelInv, PointersAgree, ai
  <2>2. CASE NewContext(ctx)
    BY <2>2, <1>a, <1>b, <1>c, Distinct DEF LoadInv, ModelInv, PointersAgree, NewContext
  <2>. QED BY <2>1, <2>2, <1>a
<1>11. HeldObjectsAreLive'
  <2>1. CASE UNCHANGED ai
    BY <2>1, <1>a, <1>b DEF LoadInv, ModelInv, HeldObjectsAreLive, Held, PointersAgree, ai
  <2>2. CASE NewContext(ctx)
    BY <2>2, <1>a, <1>b, <1>c, Distinct DEF LoadInv, ModelInv, HeldObjectsAreLive, Held,
           PointersAgree, NewContext
  <2>. QED BY <2>1, <2>2, <1>a
<1>12. DecodesWithOneModel'
  <2>1. ASSUME worker' = "put_in" PROVE NewContext(ctx) /\ aimanager.model # Null
    BY <2>1, <1>a
  <2>. QED BY <2>1, <1>a, <1>b, <1>c DEF LoadInv, ModelInv, DecodesWithOneModel, PointersAgree
<1>. QED BY <1>1, <1>2, <1>3, <1>4, <1>5, <1>6, <1>7, <1>8, <1>9, <1>10, <1>11, <1>12
         DEF LoadInv, HandlerInv, ModelInv

LEMMA WorkerPutInKeeps == ASSUME LoadInv, WorkerPutIn PROVE LoadInv'
<1>a. EventsInv' /\ events' \in EventLists
  <2>1. CASE Post("increment")
    BY <2>1, Posts DEF WorkerPutIn, locals, EventKinds, Working
  <2>2. CASE events' = events
    BY <2>2, EventsAside DEF WorkerPutIn, locals, Working, LoadInv, Types
  <2>. QED BY <2>1, <2>2 DEF WorkerPutIn
<1>1. Types'
  BY <1>a DEF LoadInv, Types, WorkerPutIn, buttons, fixed, locals
<1>2. Control'
  BY <1>a DEF LoadInv, HandlerInv, Control, Working, WorkerPutIn, buttons, fixed, locals
<1>3. DialogsInOrder'
  BY <1>a DEF LoadInv, HandlerInv, DialogsInOrder, Working, WorkerPutIn, locals
<1>4. FlagIsTrue'
  BY <1>a DEF LoadInv, HandlerInv, FlagIsTrue, WorkerPutIn
<1>5. SearchAgrees'
  BY <1>a DEF LoadInv, HandlerInv, SearchAgrees, WorkerPutIn, buttons, locals
<1>6. ButtonsAgree'
  BY <1>a DEF LoadInv, HandlerInv, ButtonsAgree, Kinds, Control, LoadAgrees, UnloadAgrees,
         WorkerPutIn, buttons, fixed, locals
<1>7. DeathsAreKnown'
  BY <1>a DEF LoadInv, HandlerInv, DeathsAreKnown, WorkerPutIn
<1>8. EventsInv'
  BY <1>a
<1>9. ModelInv'
  BY ModelAside DEF WorkerPutIn, buttons, fixed, ai
<1>. QED BY <1>1, <1>2, <1>3, <1>4, <1>5, <1>6, <1>7, <1>8, <1>9 DEF LoadInv, HandlerInv

LEMMA WorkerWhittledKeeps == ASSUME LoadInv, WorkerWhittled PROVE LoadInv'
<1>1. Types'
  BY DEF LoadInv, Types, WorkerWhittled, buttons, fixed, locals
<1>2. Control'
  BY DEF LoadInv, HandlerInv, Control, Working, WorkerWhittled, buttons, fixed, locals
<1>3. DialogsInOrder'
  BY DEF LoadInv, HandlerInv, DialogsInOrder, Working, WorkerWhittled, locals
<1>4. FlagIsTrue'
  BY DEF LoadInv, HandlerInv, FlagIsTrue, WorkerWhittled
<1>5. SearchAgrees'
  BY DEF LoadInv, HandlerInv, SearchAgrees, WorkerWhittled, buttons, locals
<1>6. ButtonsAgree'
  BY DEF LoadInv, HandlerInv, ButtonsAgree, Kinds, LoadAgrees, UnloadAgrees, WorkerWhittled,
         buttons, fixed, locals
<1>7. DeathsAreKnown'
  BY DEF LoadInv, HandlerInv, DeathsAreKnown, WorkerWhittled
<1>8. EventsInv'
  BY EventsAside DEF Working, WorkerWhittled, locals
<1>9. ModelInv'
  BY ModelAside DEF WorkerWhittled, buttons, fixed, ai
<1>. QED BY <1>1, <1>2, <1>3, <1>4, <1>5, <1>6, <1>7, <1>8, <1>9 DEF LoadInv, HandlerInv

LEMMA WorkerFlagKeeps == ASSUME LoadInv, WorkerFlag PROVE LoadInv'
<1>1. Types'
  BY DEF LoadInv, Types, WorkerFlag, buttons, fixed, locals
<1>2. Control'
  BY DEF LoadInv, HandlerInv, Control, Working, WorkerFlag, buttons, fixed, locals
<1>3. DialogsInOrder'
  BY DEF LoadInv, HandlerInv, DialogsInOrder, Working, WorkerFlag, locals
<1>4. FlagIsTrue'
  BY DEF LoadInv, HandlerInv, FlagIsTrue, WorkerFlag, locals
<1>5. SearchAgrees'
  BY DEF LoadInv, HandlerInv, SearchAgrees, WorkerFlag, buttons, locals
<1>6. ButtonsAgree'
  BY DEF LoadInv, HandlerInv, ButtonsAgree, FlagIsTrue, LoadAgrees, UnloadAgrees, WorkerFlag,
         buttons, fixed, locals
<1>7. DeathsAreKnown'
  BY DEF LoadInv, HandlerInv, DeathsAreKnown, WorkerFlag
<1>8. EventsInv'
  BY EventsAside DEF Working, WorkerFlag, locals
<1>9. ModelInv'
  BY ModelAside DEF WorkerFlag, buttons, fixed, ai
<1>. QED BY <1>1, <1>2, <1>3, <1>4, <1>5, <1>6, <1>7, <1>8, <1>9 DEF LoadInv, HandlerInv

LEMMA WorkerPostKeeps == ASSUME LoadInv, WorkerPost PROVE LoadInv'
<1>a. EventsInv' /\ events' \in EventLists
  BY Posts DEF WorkerPost, locals, EventKinds, Working
<1>1. Types'
  BY <1>a DEF LoadInv, Types, WorkerPost, buttons, fixed, locals
<1>2. Control'
  BY <1>a DEF LoadInv, HandlerInv, Control, WorkerPost, locals
<1>3. DialogsInOrder'
  BY <1>a DEF LoadInv, HandlerInv, DialogsInOrder, Working, WorkerPost, locals
<1>4. FlagIsTrue'
  BY <1>a DEF LoadInv, HandlerInv, FlagIsTrue, WorkerPost, locals
<1>5. SearchAgrees'
  BY <1>a DEF LoadInv, HandlerInv, SearchAgrees, WorkerPost, buttons, locals
<1>6. ButtonsAgree'
  BY <1>a DEF LoadInv, HandlerInv, ButtonsAgree, LoadAgrees, UnloadAgrees, WorkerPost,
         buttons, fixed, locals
<1>7. DeathsAreKnown'
  BY <1>a DEF LoadInv, HandlerInv, DeathsAreKnown, WorkerPost
<1>8. EventsInv'
  BY <1>a
<1>9. ModelInv'
  BY ModelAside DEF WorkerPost, buttons, fixed, ai
<1>. QED BY <1>1, <1>2, <1>3, <1>4, <1>5, <1>6, <1>7, <1>8, <1>9 DEF LoadInv, HandlerInv

\* The GUI thread in the loop of the dialog, and what closes the dialog.
LEMMA HandleEventKeeps == ASSUME LoadInv, HandleEvent PROVE LoadInv'
<1>a. /\ Head(events) = events[1] /\ 1 \in DOMAIN events /\ events' = Tail(events)
      /\ Tail(events) \in EventLists /\ events[1] \in [what : EventKinds, dialog : Dialogs]
      /\ \A n \in DOMAIN Tail(events) :
            /\ n \in Nat \ {0} /\ n + 1 \in DOMAIN events /\ Tail(events)[n] = events[n + 1]
            /\ Tail(events)[n] \in [what : EventKinds, dialog : Dialogs]
  <2>1. events \in EventLists /\ events # <<>> /\ events' = Tail(events)
    BY DEF LoadInv, Types, HandleEvent
  <2>2. /\ Head(events) = events[1] /\ 1 \in DOMAIN events /\ Tail(events) \in EventLists
        /\ Len(events) \in Nat \ {0} /\ DOMAIN events = 1 .. Len(events)
        /\ DOMAIN Tail(events) = 1 .. Len(events) - 1
    BY <2>1 DEF EventLists
  <2>3. \A n \in DOMAIN events : events[n] \in [what : EventKinds, dialog : Dialogs]
    BY <2>1, Elements DEF EventLists
  <2>4. \A n \in 1 .. Len(events) - 1 : n + 1 \in 1 .. Len(events) /\ Tail(events)[n] = events[n + 1]
    BY <2>1, <2>2 DEF EventLists
  <2>. QED BY <2>1, <2>2, <2>3, <2>4
<1>b. events[1].dialog \in Dialogs /\ events[1].dialog <= dlg
  BY <1>a DEF LoadInv, EventsInv, DestroyComesLast
<1>c. \/ UNCHANGED <<dialog, gui>> /\ events[1].what # "destroy"
      \/ /\ events[1].what = "destroy" /\ dialog' = [dialog EXCEPT ![events[1].dialog] = "destroyed"]
         /\ \/ gui' = gui /\ dialog[events[1].dialog] # "modal"
            \/ gui' = Report /\ dialog[events[1].dialog] = "modal"
  BY <1>a DEF HandleEvent
<1>d. ASSUME events[1].what = "destroy", events[1].dialog = dlg
      PROVE  worker \notin Working
  BY <1>a, <1>d DEF LoadInv, EventsInv, DestroyComesLast
<1>e. ASSUME events[1].what = "destroy", dialog[events[1].dialog] = "modal"
      PROVE  gui = "modal" /\ events[1].dialog = dlg /\ worker = "exited"
  <2>1. events[1].dialog = dlg
    BY <1>b, <1>e DEF LoadInv, HandlerInv, DialogsInOrder, Types, Dialogs
  <2>2. gui = "modal"
    BY <2>1, <1>b, <1>e DEF LoadInv, HandlerInv, DialogsInOrder, HandleEvent, After
  <2>. QED BY <2>1, <2>2, <1>d, <1>e DEF LoadInv, HandlerInv, Control
<1>1. Types'
  BY <1>a, <1>b, <1>c, Reports DEF LoadInv, Types, After, HandleEvent, buttons, fixed, locals
<1>2. Control'
  BY <1>b, <1>c, <1>d, <1>e, Reports DEF LoadInv, HandlerInv, Control, HandleEvent, buttons,
         fixed, locals
<1>3. DialogsInOrder'
  BY <1>b, <1>c, <1>d, <1>e, Reports DEF LoadInv, HandlerInv, DialogsInOrder, Types, Control,
         Working, HandleEvent, locals
<1>4. FlagIsTrue'
  BY <1>b, <1>c, <1>d, <1>e, Reports DEF LoadInv, HandlerInv, FlagIsTrue, HandleEvent, locals
<1>5. SearchAgrees'
  BY <1>b, <1>c, <1>d, <1>e, Reports DEF LoadInv, HandlerInv, SearchAgrees, HandleEvent,
         buttons, locals
<1>6. ButtonsAgree'
  BY <1>b, <1>c, <1>d, <1>e, Reports DEF LoadInv, HandlerInv, ButtonsAgree, Kinds, LoadAgrees,
         UnloadAgrees, HandleEvent, buttons, fixed, locals
<1>7. DeathsAreKnown'
  BY <1>b, <1>c, <1>d, <1>e, Reports DEF LoadInv, HandlerInv, DeathsAreKnown, HandleEvent
<1>8. EventsInv'
  <2>1. DestroyComesLast'
    BY <1>a DEF LoadInv, EventsInv, DestroyComesLast, HandleEvent, locals
  <2>2. \A n \in DOMAIN Tail(events) :
            events[1].what = "destroy" => Tail(events)[n].dialog # events[1].dialog
    BY <1>a DEF LoadInv, EventsInv, DestroyComesLast
  <2>3. EventsFindTheirDialog'
    BY <1>a, <1>b, <1>c, <2>2 DEF LoadInv, Types, EventsInv, EventsFindTheirDialog
  <2>. QED BY <2>1, <2>3 DEF EventsInv
<1>9. ModelInv'
  BY ModelAside DEF HandleEvent, buttons, fixed, ai, locals
<1>. QED BY <1>1, <1>2, <1>3, <1>4, <1>5, <1>6, <1>7, <1>8, <1>9 DEF LoadInv, HandlerInv

LEMMA CloseEarlyKeeps == ASSUME LoadInv, CloseEarly PROVE LoadInv'
<1>1. Types'
  BY Reports DEF LoadInv, Types, After, CloseEarly, buttons, fixed, locals
<1>2. Control'
  BY Reports DEF LoadInv, HandlerInv, Control, CloseEarly, buttons, fixed, locals
<1>3. DialogsInOrder'
  BY Reports DEF LoadInv, HandlerInv, DialogsInOrder, Types, CloseEarly, locals
<1>4. FlagIsTrue'
  BY Reports DEF LoadInv, HandlerInv, FlagIsTrue, CloseEarly, locals
<1>5. SearchAgrees'
  BY Reports DEF LoadInv, HandlerInv, SearchAgrees, CloseEarly, buttons, locals
<1>6. ButtonsAgree'
  BY Reports DEF LoadInv, HandlerInv, ButtonsAgree, LoadAgrees, UnloadAgrees, CloseEarly,
         buttons, fixed
<1>7. DeathsAreKnown'
  BY Reports DEF LoadInv, HandlerInv, DeathsAreKnown, CloseEarly
<1>8. EventsInv'
  BY DEF LoadInv, EventsInv, DestroyComesLast, EventsFindTheirDialog, CloseEarly, locals
<1>9. ModelInv'
  BY ModelAside DEF CloseEarly, buttons, fixed, ai, locals
<1>. QED BY <1>1, <1>2, <1>3, <1>4, <1>5, <1>6, <1>7, <1>8, <1>9 DEF LoadInv, HandlerInv

\* The rest of the handlers: a button at a time, and the join.
LEMMA ReportFailureKeeps == ASSUME LoadInv, ReportFailure PROVE LoadInv'
<1>1. Types'
  BY DEF LoadInv, Types, After, ReportFailure, buttons, fixed, locals
<1>2. Control'
  BY DEF LoadInv, HandlerInv, Control, Types, ReportFailure, buttons, fixed, locals
<1>3. DialogsInOrder'
  BY DEF LoadInv, HandlerInv, DialogsInOrder, After, ReportFailure, locals
<1>4. FlagIsTrue'
  BY DEF LoadInv, HandlerInv, FlagIsTrue, After, ReportFailure, locals
<1>5. SearchAgrees'
  BY DEF LoadInv, HandlerInv, SearchAgrees, ReportFailure, buttons, locals
<1>6. ButtonsAgree'
  BY DEF LoadInv, HandlerInv, ButtonsAgree, LoadAgrees, UnloadAgrees, ReportFailure, buttons,
         fixed, locals
<1>7. DeathsAreKnown'
  BY DEF LoadInv, HandlerInv, DeathsAreKnown, ReportFailure
<1>8. EventsInv'
  BY EventsAside DEF ReportFailure, locals
<1>9. ModelInv'
  BY ModelAside DEF ReportFailure, buttons, fixed, ai, locals
<1>. QED BY <1>1, <1>2, <1>3, <1>4, <1>5, <1>6, <1>7, <1>8, <1>9 DEF LoadInv, HandlerInv

LEMMA DismissMessageKeeps == ASSUME LoadInv, DismissMessage PROVE LoadInv'
<1>1. Types'
  BY DEF LoadInv, Types, After, DismissMessage, buttons, fixed, locals
<1>2. Control'
  BY DEF LoadInv, HandlerInv, Control, Types, DismissMessage, buttons, fixed, locals
<1>3. DialogsInOrder'
  BY DEF LoadInv, HandlerInv, DialogsInOrder, After, DismissMessage, locals
<1>4. FlagIsTrue'
  BY DEF LoadInv, HandlerInv, FlagIsTrue, After, DismissMessage, locals
<1>5. SearchAgrees'
  BY DEF LoadInv, HandlerInv, SearchAgrees, DismissMessage, buttons, locals
<1>6. ButtonsAgree'
  BY DEF LoadInv, HandlerInv, ButtonsAgree, LoadAgrees, UnloadAgrees, DismissMessage, buttons,
         fixed, locals
<1>7. DeathsAreKnown'
  BY DEF LoadInv, HandlerInv, DeathsAreKnown, DismissMessage
<1>8. EventsInv'
  BY EventsAside DEF DismissMessage, locals
<1>9. ModelInv'
  BY ModelAside DEF DismissMessage, buttons, fixed, ai, locals
<1>. QED BY <1>1, <1>2, <1>3, <1>4, <1>5, <1>6, <1>7, <1>8, <1>9 DEF LoadInv, HandlerInv

LEMMA EnableLoadKeeps == ASSUME LoadInv, EnableLoad PROVE LoadInv'
<1>1. Types'
  BY DEF LoadInv, Types, After, EnableLoad, fixed, locals
<1>2. Control'
  BY DEF LoadInv, HandlerInv, Control, After, EnableLoad, fixed, locals
<1>3. DialogsInOrder'
  BY DEF LoadInv, HandlerInv, DialogsInOrder, After, EnableLoad, locals
<1>4. FlagIsTrue'
  BY DEF LoadInv, HandlerInv, FlagIsTrue, After, EnableLoad, locals
<1>5. SearchAgrees'
  BY DEF LoadInv, HandlerInv, SearchAgrees, EnableLoad, locals
<1>6. ButtonsAgree'
  BY DEF LoadInv, HandlerInv, ButtonsAgree, Types, Control, LoadAgrees, UnloadAgrees,
         EnableLoad, fixed, locals
<1>7. DeathsAreKnown'
  BY DEF LoadInv, HandlerInv, DeathsAreKnown, EnableLoad
<1>8. EventsInv'
  BY EventsAside DEF EnableLoad, locals
<1>9. ModelInv'
  BY ModelAside DEF EnableLoad, fixed, ai, locals
<1>. QED BY <1>1, <1>2, <1>3, <1>4, <1>5, <1>6, <1>7, <1>8, <1>9 DEF LoadInv, HandlerInv

LEMMA EnableUnloadKeeps == ASSUME LoadInv, EnableUnload PROVE LoadInv'
<1>1. Types'
  BY DEF LoadInv, Types, After, EnableUnload, fixed, locals
<1>2. Control'
  BY DEF LoadInv, HandlerInv, Control, After, EnableUnload, fixed, locals
<1>3. DialogsInOrder'
  BY DEF LoadInv, HandlerInv, DialogsInOrder, After, EnableUnload, locals
<1>4. FlagIsTrue'
  BY DEF LoadInv, HandlerInv, FlagIsTrue, After, EnableUnload, locals
<1>5. SearchAgrees'
  BY DEF LoadInv, HandlerInv, SearchAgrees, EnableUnload, locals
<1>6. ButtonsAgree'
  BY DEF LoadInv, HandlerInv, ButtonsAgree, Types, Control, LoadAgrees, UnloadAgrees,
         EnableUnload, fixed, locals
<1>7. DeathsAreKnown'
  BY DEF LoadInv, HandlerInv, DeathsAreKnown, EnableUnload
<1>8. EventsInv'
  BY EventsAside DEF EnableUnload, locals
<1>9. ModelInv'
  BY ModelAside DEF EnableUnload, fixed, ai, locals
<1>. QED BY <1>1, <1>2, <1>3, <1>4, <1>5, <1>6, <1>7, <1>8, <1>9 DEF LoadInv, HandlerInv

LEMMA EnableSearchKeeps == ASSUME LoadInv, EnableSearch PROVE LoadInv'
<1>1. Types'
  BY DEF LoadInv, Types, After, EnableSearch, fixed, locals
<1>2. Control'
  BY DEF LoadInv, HandlerInv, Control, After, EnableSearch, fixed, locals
<1>3. DialogsInOrder'
  BY DEF LoadInv, HandlerInv, DialogsInOrder, After, EnableSearch, locals
<1>4. FlagIsTrue'
  BY DEF LoadInv, HandlerInv, FlagIsTrue, After, EnableSearch, locals
<1>5. SearchAgrees'
  BY DEF LoadInv, HandlerInv, SearchAgrees, Control, FlagIsTrue, After, EnableSearch
<1>6. ButtonsAgree'
  BY DEF LoadInv, HandlerInv, ButtonsAgree, LoadAgrees, UnloadAgrees, EnableSearch, fixed,
         locals
<1>7. DeathsAreKnown'
  BY DEF LoadInv, HandlerInv, DeathsAreKnown, EnableSearch
<1>8. EventsInv'
  BY EventsAside DEF EnableSearch, locals
<1>9. ModelInv'
  BY ModelAside DEF EnableSearch, fixed, ai, locals
<1>. QED BY <1>1, <1>2, <1>3, <1>4, <1>5, <1>6, <1>7, <1>8, <1>9 DEF LoadInv, HandlerInv

LEMMA JoinKeeps == ASSUME LoadInv, Join PROVE LoadInv'
<1>1. Types'
  BY DEF LoadInv, Types, Join, buttons, fixed, locals
<1>2. Control'
  BY DEF LoadInv, HandlerInv, Control, After, Join
<1>3. DialogsInOrder'
  BY DEF LoadInv, HandlerInv, DialogsInOrder, After, Working, Join, locals
<1>4. FlagIsTrue'
  BY DEF LoadInv, HandlerInv, FlagIsTrue, After, Join
<1>5. SearchAgrees'
  BY DEF LoadInv, HandlerInv, SearchAgrees, Join, buttons
<1>6. ButtonsAgree'
  BY DEF LoadInv, HandlerInv, ButtonsAgree, LoadAgrees, UnloadAgrees, Join, buttons, fixed
<1>7. DeathsAreKnown'
  BY DEF LoadInv, HandlerInv, DeathsAreKnown, Join
<1>8. EventsInv'
  BY EventsAside DEF Working, Join, locals
<1>9. ModelInv'
  BY ModelAside DEF Join, buttons, fixed, ai
<1>. QED BY <1>1, <1>2, <1>3, <1>4, <1>5, <1>6, <1>7, <1>8, <1>9 DEF LoadInv, HandlerInv

\* Without the model there is nothing that points to it.
LEMMA UnloadModelKeeps == ASSUME LoadInv, UnloadModel PROVE LoadInv'
<1>a. /\ Reset /\ UNCHANGED <<can_close_early, dlg, i, worker>> /\ worker = "none"
      /\ loaded' = [loaded EXCEPT !["model"] = "no"]
  BY DEF UnloadModel, fixed, locals, LoadInv, HandlerInv, Control
<1>b. /\ aimanager' \in [model : Models \cup {Null}, vocab : Models \cup {Null},
                         smpl : Samplers \cup {Null}, ctx : Contexts \cup {Null}]
      /\ aimanager'.model = Null /\ aimanager'.smpl = Null /\ aimanager'.ctx = Null
  BY <1>a DEF LoadInv, ModelInv, PointerTypes, Reset
<1>1. Types'
  BY DEF LoadInv, Types, UnloadModel, fixed, locals
<1>2. Control'
  BY DEF LoadInv, HandlerInv, Control, UnloadModel, fixed, locals
<1>3. DialogsInOrder'
  BY DEF LoadInv, HandlerInv, DialogsInOrder, UnloadModel, locals
<1>4. FlagIsTrue'
  BY DEF LoadInv, HandlerInv, FlagIsTrue, Control, Working, UnloadModel
<1>5. SearchAgrees'
  BY DEF LoadInv, HandlerInv, SearchAgrees, UnloadModel
<1>6. ButtonsAgree'
  BY DEF LoadInv, HandlerInv, ButtonsAgree, Types, Control, LoadAgrees, UnloadAgrees,
         UnloadModel, fixed
<1>7. DeathsAreKnown'
  BY DEF LoadInv, HandlerInv, DeathsAreKnown, UnloadModel
<1>8. EventsInv'
  BY EventsAside DEF UnloadModel, locals
<1>9. PointerTypes'
  BY <1>b DEF PointerTypes
<1>10. PointersAgree'
  BY <1>a, <1>b DEF PointersAgree, LoadInv, Types, Kinds
<1>11. HeldObjectsAreLive'
  BY <1>a, <1>b DEF LoadInv, ModelInv, HeldObjectsAreLive, Held, Reset
<1>12. DecodesWithOneModel'
  BY <1>a DEF DecodesWithOneModel
<1>. QED BY <1>1, <1>2, <1>3, <1>4, <1>5, <1>6, <1>7, <1>8, <1>9, <1>10, <1>11, <1>12
         DEF LoadInv, HandlerInv, ModelInv


-----------------------------------------------------------------------------
(* The theorems.                                                           *)

LEMMA LoadStutters == ASSUME LoadInv, UNCHANGED vars PROVE LoadInv'
<1>1. Types'
  BY DEF vars, buttons, fixed, locals, LoadInv, Types
<1>2. Control' /\ DialogsInOrder' /\ FlagIsTrue' /\ SearchAgrees'
  BY DEF vars, buttons, fixed, locals, LoadInv, HandlerInv, Control, DialogsInOrder,
         FlagIsTrue, SearchAgrees
<1>3. ButtonsAgree' /\ DeathsAreKnown'
  BY DEF vars, buttons, fixed, locals, ai, LoadInv, HandlerInv, ButtonsAgree, LoadAgrees,
         UnloadAgrees, DeathsAreKnown
<1>4. EventsInv' /\ ModelInv'
  BY EventsAside, ModelAside DEF vars, buttons, fixed, ai, locals
<1>. QED BY <1>1, <1>2, <1>3, <1>4 DEF LoadInv, HandlerInv

\* The handlers, the workers and the user who closes dialogs keep the invariant.
THEOREM LoadInvariant == Spec => []LoadInv
<1>1. LoadInv /\ [Next]_vars => LoadInv'
  BY LoadStutters, ClickKeeps, WorkerStartKeeps, WorkerLoadKeeps, WorkerLoadModelKeeps,
     WorkerContextKeeps, WorkerPutInKeeps, WorkerWhittledKeeps, WorkerFlagKeeps,
     WorkerPostKeeps, HandleEventKeeps, CloseEarlyKeeps, ReportFailureKeeps,
     DismissMessageKeeps, EnableLoadKeeps, EnableUnloadKeeps, EnableSearchKeeps, JoinKeeps,
     UnloadModelKeeps
         DEF Next, WorkerStep, GuiStep, Wait
<1>. QED BY <1>1, LoadStarts, PTL DEF Spec

\* No event is delivered to a dialog that is gone, however many loads there are
\* and however many dialogs are closed before their worker has ended.
THEOREM NoEventIsLate == Spec => []EventsFindTheirDialog
<1>1. LoadInv => EventsFindTheirDialog
  BY DEF LoadInv, EventsInv
<1>. QED BY <1>1, LoadInvariant, PTL

\* The search button is enabled only while the database is open, also when a
\* second load of it fails while the first button still shows the other state.
THEOREM SearchesFindDatabase == Spec => []SearchNeedsDatabase
<1>1. LoadInv => SearchNeedsDatabase
  BY DEF LoadInv, HandlerInv, SearchAgrees, SearchNeedsDatabase
<1>. QED BY <1>1, LoadInvariant, PTL

\* Where no dialog is closed early, the Load and Unload buttons are right
\* whenever a user can click on them.
THEOREM ButtonsAreTrue == Spec => []ButtonsTellTheTruth
<1>1. LoadInv => ButtonsTellTheTruth
  BY DEF LoadInv, HandlerInv, ButtonsAgree, LoadAgrees, UnloadAgrees, ButtonsTellTheTruth
<1>. QED BY <1>1, LoadInvariant, PTL

\* g_aimanager holds nothing that is freed, and frees all it has held.
THEOREM NothingHeldIsFreed == Spec => []HeldObjectsAreLive
<1>1. LoadInv => HeldObjectsAreLive
  BY DEF LoadInv, ModelInv
<1>. QED BY <1>1, LoadInvariant, PTL

\* A paper meets the context, the sampler and the vocabulary of one model.
THEOREM OneModelDecodes == Spec => []DecodesWithOneModel
<1>1. LoadInv => DecodesWithOneModel
  BY DEF LoadInv, ModelInv
<1>. QED BY <1>1, LoadInvariant, PTL

\* The program dies of nothing but the three causes that the code leaves open.
THEOREM NoOtherDeath == Spec => []DeathsAreKnown
<1>1. LoadInv => DeathsAreKnown
  BY DEF LoadInv, HandlerInv
<1>. QED BY <1>1, LoadInvariant, PTL

=============================================================================
