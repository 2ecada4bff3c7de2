----------------------------- MODULE LoadDialog -----------------------------
(***************************************************************************)
(* The handlers of Dialog_Main (GUI_Dialog_Main.cpp) that start a worker:  *)
(* the GUI thread shows a modal Dialog_Waiting and enables the buttons     *)
(* from the flag the worker has set by then; the worker loads and hands    *)
(* events for the dialog to the GUI thread with CallAfter.                 *)
(* "papers" loads the tokens of all papers into g_paperman, "xapian" opens *)
(* the database of g_seman, which the search button reads, "model"         *)
(* initialises g_aimanager (ai.cpp), and "whittle" gives it the papers.    *)
(***************************************************************************)
EXTENDS Naturals, Sequences, FiniteSets

CONSTANTS
    MaxDialogs,     \* bound on the dialogs made: loads that are tried
    MaxHidden       \* bound on those closed early that wait for their end

ASSUME LoadDialogAssumption == MaxDialogs \in Nat /\ MaxHidden \in Nat

Kinds == {"papers", "xapian", "model"}    \* what has a Load and an Unload button
Dialogs == 1 .. MaxDialogs

Null == <<>>

\* What llama.cpp allocates: the model and the sampler of load d, and the
\* context for paper p of dialog d, made from model m.  The vocabulary is a
\* part of its model.
Model(d) == <<"model", d>>
Sampler(d) == <<"sampler", d>>
Context(m, d, p) == <<"context", m, d, p>>

VARIABLES
    build,                  \* whether PAPERKERNELCXX_USE_AI is defined and
                            \* whether assertions are checked; never changes
    can_close_early,        \* whether the window manager lets the user close
                            \* a dialog that waits; it never changes
    load, unload, search,   \* which buttons are enabled
    loaded,                 \* loaded[k]: "no", "partly" or "yes"; "model" is
                            \* loaded from Init to Reset, with or without one
    aimanager,              \* the four pointers of g_aimanager
    live,                   \* the objects of llama.cpp that are not freed
    gui,                    \* where the GUI thread is; "dead" for no program
    kind, dlg, is_loaded,   \* the locals of the handler it is in
    worker,                 \* where the worker thread is
    i,                      \* its loop counter when it whittles
    dialog,                 \* dialog[d]: what has become of dialog d
    events                  \* the pending CallAfter events, oldest first

fixed == <<build, can_close_early>>
buttons == <<fixed, load, unload, search>>
ai == <<aimanager, live>>
locals == <<kind, dlg>>
vars == <<buttons, loaded, ai, gui, locals, is_loaded, worker, i, dialog, events>>

Post(what) == events' = Append(events, [what |-> what, dialog |-> dlg])

\* The worker fails an assertion, or leaves an exception uncaught.
Die(how) == gui' = "dead" /\ worker' = how

\* A button handler up to ShowModal
Click(k) ==
    /\ gui = "idle" /\ dlg < MaxDialogs
    /\ k \in Kinds => load[k]
    /\ kind' = k /\ dlg' = dlg + 1
    /\ dialog' = [dialog EXCEPT ![dlg + 1] = "modal"]
    /\ is_loaded' = FALSE /\ worker' = "start" /\ i' = 0 /\ gui' = "modal"
    /\ UNCHANGED <<buttons, loaded, ai, events>>

-----------------------------------------------------------------------------
(* The language model.                                                     *)

LoadModel_KeepsVocab ==
    /\ live' = live \cup {Model(dlg), Sampler(dlg)}
    /\ aimanager' = [aimanager EXCEPT !.model = Model(dlg), !.smpl = Sampler(dlg),
                                      !.vocab = IF @ = Null THEN Model(dlg) ELSE @]

\* AImanager::Init, where nothing fails.  A context that is there stays.
LoadModel ==
    /\ live' = live \cup {Model(dlg), Sampler(dlg)}
    /\ aimanager' = [aimanager EXCEPT !.model = Model(dlg), !.vocab = Model(dlg),
                                      !.smpl = Sampler(dlg)]

Reset_KeepsContext ==
    /\ live' = live \ {aimanager.smpl, aimanager.ctx, aimanager.model}
    /\ aimanager' = [aimanager EXCEPT !.smpl = Null, !.model = Null]

\* The vocabulary is not forgotten.
Reset ==
    /\ live' = live \ {aimanager.smpl, aimanager.ctx, aimanager.model}
    /\ aimanager' = [aimanager EXCEPT !.smpl = Null, !.ctx = Null, !.model = Null]

\* DiscardContext is called first.  There is no context if it cannot be made.
NewContext(ctx) ==
    /\ aimanager' = [aimanager EXCEPT !.ctx = ctx]
    /\ live' = (live \ {aimanager.ctx}) \cup ({ctx} \ {Null})

-----------------------------------------------------------------------------
(* The worker.                                                             *)

\* assert( tokens.empty() )
WorkerStart ==
    /\ worker = "start"
    /\ IF build.asserts /\ kind = "papers" /\ loaded["papers"] # "no"
       THEN Die("assert") /\ UNCHANGED events
       ELSE /\ worker' = "work" /\ UNCHANGED gui
            /\ IF kind = "xapian" THEN Post("progress") ELSE UNCHANGED events
    /\ UNCHANGED <<buttons, loaded, ai, locals, is_loaded, i, dialog>>

\* The exception skips the flag in the code; here it does not.
WorkerLoad_FlagsAlways ==
    /\ worker = "work" /\ kind \in {"papers", "xapian"} /\ worker' = "flag"
    /\ loaded' \in {[loaded EXCEPT ![kind] = how] : how \in {"yes", "partly", "no"}}
    /\ UNCHANGED <<buttons, ai, gui, locals, is_loaded, i, dialog, events>>

\* Loading the tokens may throw between two files and keeps those it has; a
\* database that cannot be opened is left closed, also when one was open.
WorkerLoad ==
    /\ worker = "work" /\ kind \in {"papers", "xapian"}
    /\ \/ /\ loaded' = [loaded EXCEPT ![kind] = "yes"] /\ worker' = "flag"
          /\ IF kind = "xapian" THEN Post("progress") ELSE UNCHANGED events
       \/ /\ loaded' \in {[loaded EXCEPT ![kind] = how] :
                             how \in {loaded[kind], IF kind = "papers" THEN "partly" ELSE "no"}}
          /\ worker' = "post" /\ UNCHANGED events
    /\ UNCHANGED <<buttons, ai, gui, locals, is_loaded, i, dialog>>

\* Init does nothing in a build without the model.  This worker catches nothing
\* that it throws.
WorkerLoadModel ==
    /\ worker = "work" /\ kind = "model"
    /\ \/ /\ worker' = "flag" /\ loaded' = [loaded EXCEPT !["model"] = "yes"]
          /\ IF build.use_ai THEN LoadModel ELSE UNCHANGED ai
          /\ UNCHANGED gui
       \/ build.use_ai /\ Die("terminate") /\ UNCHANGED <<loaded, ai>>
    /\ UNCHANGED <<buttons, locals, is_loaded, i, dialog, events>>

\* The papers in g_paperman
papers == CASE loaded["papers"] = "no"     -> 0
            [] loaded["papers"] = "partly" -> 1
            [] loaded["papers"] = "yes"    -> 2

\* The exception of NewContext is caught in the code; here it is not.
WorkerContext_Uncaught ==
    /\ worker = "work" /\ kind = "whittle" /\ i < papers
    /\ \/ /\ aimanager.model # Null /\ worker' = "put_in"
          /\ NewContext(Context(aimanager.model, dlg, i)) /\ UNCHANGED gui
       \/ /\ build.asserts => aimanager.model # Null
          /\ NewContext(Null) /\ Die("terminate")
       \/ build.asserts /\ aimanager.model = Null /\ Die("assert") /\ UNCHANGED ai
    /\ UNCHANGED <<buttons, loaded, locals, is_loaded, i, dialog, events>>

\* assert( nullptr != this->model ).  Without a model, or when it fails, there
\* is an exception, which is caught outside the loop.
WorkerContext ==
    /\ worker = "work" /\ kind = "whittle" /\ i < papers
    /\ \/ /\ aimanager.model # Null /\ worker' = "put_in"
          /\ NewContext(Context(aimanager.model, dlg, i)) /\ UNCHANGED gui
       \/ /\ build.asserts => aimanager.model # Null
          /\ NewContext(Null) /\ worker' = "post" /\ UNCHANGED gui
       \/ build.asserts /\ aimanager.model = Null /\ Die("assert") /\ UNCHANGED ai
    /\ UNCHANGED <<buttons, loaded, locals, is_loaded, i, dialog, events>>

\* LoadInPaper gives the paper to the model, or throws.
WorkerPutIn ==
    /\ worker = "put_in"
    /\ \/ worker' = "work" /\ i' = i + 1 /\ Post("increment")
       \/ worker' = "post" /\ UNCHANGED <<i, events>>
    /\ UNCHANGED <<buttons, loaded, ai, gui, locals, is_loaded, dialog>>

WorkerWhittled ==
    /\ worker = "work" /\ kind = "whittle" /\ i = papers /\ worker' = "post"
    /\ UNCHANGED <<buttons, loaded, ai, gui, locals, is_loaded, i, dialog, events>>

WorkerFlag ==
    /\ worker = "flag" /\ worker' = "post"
    /\ is_loaded' = TRUE
    /\ UNCHANGED <<buttons, loaded, ai, gui, locals, i, dialog, events>>

WorkerPost ==
    /\ worker = "post" /\ worker' = "exited"
    /\ Post("destroy")
    /\ UNCHANGED <<buttons, loaded, ai, gui, locals, is_loaded, i, dialog>>

-----------------------------------------------------------------------------
(* The GUI thread after ShowModal, and its event loop.                     *)

\* ShowModal returns; a search database that is not loaded is reported in a
\* message box, nothing else is.  Whittling leaves the buttons alone.
Report == CASE kind = "xapian"  -> "report"
            [] kind = "whittle" -> "join"
            [] OTHER            -> "enable_load"

\* A dialog is only destroyed while it is modal.
HandleEvent_ModalOnly ==
    /\ gui \in {"idle", "modal", "message"} /\ events # <<>>
    /\ events' = Tail(events)
    /\ LET e == Head(events)
       IN  IF e.what = "destroy" /\ dialog[e.dialog] = "modal"
           THEN /\ dialog' = [dialog EXCEPT ![e.dialog] = "destroyed"]
                /\ gui' = Report
           ELSE UNCHANGED <<dialog, gui>>
    /\ UNCHANGED <<buttons, loaded, ai, locals, is_loaded, worker, i>>

\* Any event loop, of the program or of a modal window, takes the events.
HandleEvent ==
    /\ gui \in {"idle", "modal", "message"} /\ events # <<>>
    /\ events' = Tail(events)
    /\ LET e == Head(events)
       IN  IF e.what = "destroy"
           THEN /\ dialog' = [dialog EXCEPT ![e.dialog] = "destroyed"]
                /\ gui' = IF dialog[e.dialog] = "modal" THEN Report ELSE gui
           ELSE UNCHANGED <<dialog, gui>>
    /\ UNCHANGED <<buttons, loaded, ai, locals, is_loaded, worker, i>>

Hidden == Cardinality({d \in Dialogs : dialog[d] = "hidden"})

\* The handler destroys the dialog that the user has closed.
CloseEarly_Destroys ==
    /\ can_close_early /\ Hidden < MaxHidden /\ gui = "modal" /\ gui' = Report
    /\ dialog' = [dialog EXCEPT ![dlg] = "destroyed"]
    /\ UNCHANGED <<buttons, loaded, ai, locals, is_loaded, worker, i, events>>

\* wxDialog's default close handler ends the modal loop and hides the window;
\* the Cancel button only requests a stop that no worker looks at.
CloseEarly ==
    /\ can_close_early /\ Hidden < MaxHidden /\ gui = "modal" /\ gui' = Report
    /\ dialog' = [dialog EXCEPT ![dlg] = "hidden"]
    /\ UNCHANGED <<buttons, loaded, ai, locals, is_loaded, worker, i, events>>

ReportFailure ==
    /\ gui = "report"
    /\ gui' = IF is_loaded THEN "enable_load" ELSE "message"
    /\ UNCHANGED <<buttons, loaded, ai, locals, is_loaded, worker, i, dialog, events>>

DismissMessage ==
    /\ gui = "message" /\ gui' = "enable_load"
    /\ UNCHANGED <<buttons, loaded, ai, locals, is_loaded, worker, i, dialog, events>>

\* The two buttons have each other's condition.
EnableLoad_Inverted ==
    /\ gui = "enable_load" /\ gui' = "enable_unload"
    /\ load' = [load EXCEPT ![kind] = is_loaded]
    /\ UNCHANGED <<fixed, unload, search, loaded, ai, locals, is_loaded, worker, i, dialog, events>>

\* Each Enable reads the worker's flag again.
EnableLoad ==
    /\ gui = "enable_load" /\ gui' = "enable_unload"
    /\ load' = [load EXCEPT ![kind] = ~is_loaded]
    /\ UNCHANGED <<fixed, unload, search, loaded, ai, locals, is_loaded, worker, i, dialog, events>>

EnableUnload ==
    /\ gui = "enable_unload"
    /\ gui' = IF kind = "xapian" THEN "enable_search" ELSE "join"
    /\ unload' = [unload EXCEPT ![kind] = is_loaded]
    /\ UNCHANGED <<fixed, load, search, loaded, ai, locals, is_loaded, worker, i, dialog, events>>

EnableSearch ==
    /\ gui = "enable_search" /\ gui' = "join"
    /\ search' = is_loaded
    /\ UNCHANGED <<fixed, load, unload, loaded, ai, locals, is_loaded, worker, i, dialog, events>>

\* The jthread is joined when the handler's scope ends.
Join ==
    /\ gui = "join" /\ worker = "exited" /\ gui' = "idle" /\ worker' = "none"
    /\ UNCHANGED <<buttons, loaded, ai, locals, is_loaded, i, dialog, events>>

\* AI_btnUnloadModel_OnButtonClick.  The other two Unload buttons do nothing.
UnloadModel ==
    /\ gui = "idle" /\ unload["model"] /\ Reset
    /\ loaded' = [loaded EXCEPT !["model"] = "no"]
    /\ load' = [load EXCEPT !["model"] = TRUE]
    /\ unload' = [unload EXCEPT !["model"] = FALSE]
    /\ UNCHANGED <<fixed, search, gui, locals, is_loaded, worker, i, dialog, events>>

-----------------------------------------------------------------------------

Init ==
    /\ build \in [use_ai : BOOLEAN, asserts : BOOLEAN] /\ can_close_early \in BOOLEAN
    /\ load = [k \in Kinds |-> TRUE] /\ unload = [k \in Kinds |-> FALSE]
    /\ search = FALSE
    /\ loaded = [k \in Kinds |-> "no"]
    /\ aimanager = [model |-> Null, vocab |-> Null, smpl |-> Null, ctx |-> Null] /\ live = {}
    /\ gui = "idle" /\ kind = "papers" /\ dlg = 0 /\ is_loaded = FALSE
    /\ worker = "none" /\ i = 0
    /\ dialog = [d \in Dialogs |-> "none"] /\ events = <<>>

WorkerStep ==
    \/ WorkerStart \/ WorkerLoad \/ WorkerLoadModel
    \/ WorkerContext \/ WorkerPutIn \/ WorkerWhittled
    \/ WorkerFlag \/ WorkerPost

GuiStep ==
    \/ HandleEvent \/ ReportFailure \/ EnableLoad \/ EnableUnload
    \/ EnableSearch \/ Join

\* An event loop that has nothing to do waits for the user, who may have loaded
\* everything or made as many dialogs as the bound allows.
Wait ==
    /\ gui = "dead" \/ (gui \in {"idle", "modal"} /\ events = <<>>)
    /\ UNCHANGED vars

Next == (\E k \in Kinds \cup {"whittle"} : Click(k)) \/ UnloadModel
        \/ WorkerStep \/ GuiStep \/ CloseEarly \/ DismissMessage \/ Wait

Spec == Init /\ [][Next]_vars

\* Both threads are scheduled and the user dismisses the message; nobody has
\* to click on a button or to close the dialog.
FairSpec == Spec /\ WF_vars(WorkerStep) /\ WF_vars(GuiStep) /\ WF_vars(DismissMessage)

-----------------------------------------------------------------------------

\* The search button can only be clicked while the database is open.
SearchNeedsDatabase == gui = "idle" /\ search => loaded["xapian"] = "yes"

\* While no handler runs, and if no dialog can be closed early, something can
\* be loaded exactly if it is not yet loaded, and unloaded exactly if it is.
ButtonsTellTheTruth ==
    gui = "idle" /\ ~can_close_early => \A k \in Kinds : /\ load[k] <=> loaded[k] # "yes"
                                     /\ unload[k] <=> loaded[k] = "yes"

\* No event is delivered to a dialog that has been destroyed.
EventsFindTheirDialog ==
    \A n \in DOMAIN events : dialog[events[n].dialog] \in {"modal", "hidden"}

Held == {aimanager.model, aimanager.smpl, aimanager.ctx}

\* What g_aimanager points to has not been freed, so nothing that it uses, and
\* nothing that it frees later, is gone; and where no dialog can be closed
\* early, nothing stays allocated that it does not point to.
HeldObjectsAreLive ==
    /\ Held \subseteq live \cup {Null}
    /\ ~can_close_early => live \subseteq Held

\* A paper is put into a context, and sampled with the vocabulary, of the model
\* loaded last, although an unloaded model leaves its vocabulary behind and one
\* loaded over another leaves the other's context.
DecodesWithOneModel ==
    worker = "put_in" =>
        /\ aimanager.vocab = aimanager.model /\ aimanager.smpl # Null
        /\ aimanager.ctx = Context(aimanager.model, dlg, i)

\* The program only dies of a model that cannot be loaded, of papers that are
\* whittled without a model, or of a second load of the papers, after one that
\* failed half-way or was hidden from the buttons.
DeathsAreKnown ==
    gui = "dead" =>
        \/ worker = "terminate" /\ kind = "model"
        \/ worker = "assert" /\ kind = "whittle" /\ aimanager.model = Null
        \/ worker = "assert" /\ kind = "papers"
              /\ (loaded["papers"] = "partly" \/ can_close_early)

\* As long as the program lives, every handler returns to the event loop, and
\* every waiting dialog is destroyed in the end, also one closed early.
HandlersAndDialogsEnd ==
    /\ gui # "idle" ~> gui \in {"idle", "dead"}
    /\ \A d \in Dialogs : dialog[d] # "none" ~> dialog[d] = "destroyed" \/ gui = "dead"

\* assert( tokens.empty() ) when LoadAllTokensFromAllPapers is entered
TokensStartEmpty == worker = "start" /\ kind = "papers" => loaded["papers"] = "no"

=============================================================================
