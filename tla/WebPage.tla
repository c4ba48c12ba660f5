------------------------------ MODULE WebPage -------------------------------
(***************************************************************************)
(* The scripts of the web interface (application.js and the views) over    *)
(* jQuery: the list of files and of libraries, the editor with its         *)
(* validation report, the flash message and the accordion of the           *)
(* administrator.  A user may do the next thing before the last one is     *)
(* answered, and answers come in any order or fail.                        *)
(***************************************************************************)
EXTENDS JQuery

CONSTANTS
    flash_messages, validator_report, library_select_div,  \* elements
    Accordion,      \* the elements of class "accordion", in their order
    Library,        \* values of the library select, other than "all"
    MaxCalls        \* bound: how many things the user does

Accordions == {Accordion[i] : i \in DOMAIN Accordion}

ASSUME PageAssumption ==
    /\ Elem = {flash_messages, validator_report, library_select_div}
                 \cup Accordions
    /\ Shown = {validator_report, library_select_div}
    /\ flash_messages \notin Shown \cup Accordions
    /\ validator_report # library_select_div
    /\ Shown \cap Accordions = {}
    /\ Accordion \in Seq(Accordions)
    /\ "none" \notin Accordions
    /\ MaxCalls \in Nat

VARIABLES
    html,           \* the request whose answer the report shows
    library_select, \* the value of #library_select
    files_list,     \* the library whose files are listed
    link_disabled,
    opened,         \* the accordion link that was last obeyed
    bound,          \* how often Alt+x was bound on the document
    timeouts,       \* pending setTimeout calls
    calls,          \* what the user did so far
    thrown          \* callbacks that threw

pageVars == <<html, library_select, files_list, link_disabled, opened,
              bound, timeouts, calls, thrown>>
vars == <<jQueryVars, pageVars>>

Init ==
    /\ JQueryInit
    /\ html = 0
    /\ library_select = "all"
    /\ files_list = "all"
    /\ link_disabled = FALSE
    /\ opened = "none"
    /\ bound = 1
    /\ timeouts = << >>
    /\ calls = 0
    /\ thrown = 0

Callback(fn, arg) == [fn |-> fn, arg |-> arg]

-----------------------------------------------------------------------------
(* application.js *)

notify == AjaxOp(Callback("notified", 0), NoCallback)
update_file_list(library) == AjaxOp(Callback("files", library), NoCallback)
update_libraries_list == AjaxOp(Callback("libraries", 0), NoCallback)
validate_abnf(n) == AjaxOp(Callback("validated", n), NoCallback)

\* $(elem).fadeOut("fast", function(){ ... fadeIn("fast") })
FadeOut(e, callback) == QueueOp(e, Animation("hide", "fast", callback))
FadeIn(e) == QueueOp(e, Animation("show", "fast", NoCallback))

\* Mutant: the link is enabled only by the click that opens another one.
AccordionKeepDisabled(div) ==
    LET others == {a \in Accordions \ {div} : visible[a]}
        hideAll == [i \in DOMAIN Accordion |->
                       QueueOp(Accordion[i],
                               Animation("hide", "slow", NoCallback))]
    IN (IF others # {} THEN hideAll ELSE << >>) \o
       <<QueueOp(div, Animation("show", "slow",
            IF others # {} THEN Callback("enable", 0) ELSE NoCallback))>>

\* my_accordion: for each other accordion that is visible all of them are
\* hidden, then the chosen one is shown; its callback enables the links.
AccordionOps(div) ==
    LET others == {a \in Accordions \ {div} : visible[a]}
        hideAll == [i \in DOMAIN Accordion |->
                       QueueOp(Accordion[i],
                               Animation("hide", "slow", NoCallback))]
        times == Cardinality(others) * Len(Accordion)
    IN [i \in 1 .. times |-> hideAll[((i - 1) % Len(Accordion)) + 1]] \o
       <<QueueOp(div, Animation("show", "slow", Callback("enable", 0)))>>

my_accordion(div) ==
    /\ stack = << >>
    /\ calls < MaxCalls
    /\ ~link_disabled
    /\ link_disabled' = TRUE
    /\ opened' = div
    /\ stack' = AccordionOps(div)
    /\ calls' = calls + 1
    /\ UNCHANGED <<fx, ajaxVars, html, library_select, files_list, bound,
                   timeouts, thrown>>

-----------------------------------------------------------------------------
(* What the user does on the other pages *)

\* A click, a key or a form starts a script.
UserStarts(ops) ==
    /\ stack = << >>
    /\ calls < MaxCalls
    /\ calls' = calls + 1
    /\ stack' = ops
    /\ UNCHANGED <<fx, ajaxVars, html, files_list, link_disabled, opened,
                   bound, timeouts, thrown>>

\* "Validate abnf".
Validate ==
    /\ UserStarts(<<validate_abnf(calls + 1)>>)
    /\ UNCHANGED library_select

\* Alt+x.  Each bind of the hotkeys plugin gives jQuery.event one more handler
\* and the plugin one more trigger, and every handler calls every trigger.
HotKey ==
    /\ UserStarts([i \in 1 .. bound * bound |-> validate_abnf(calls + 1)])
    /\ UNCHANGED library_select

\* onchange of the library select.
SelectLibrary(library) ==
    /\ library_select # library
    /\ UserStarts(<<update_file_list(library)>>)
    /\ library_select' = library

\* "Save changes", or "Abandon changes": the answer replaces the editor, and
\* notify() is called when the request is complete.
Save ==
    /\ UserStarts(<<AjaxOp(Callback("editor", 0), Callback("notify", 0))>>)
    /\ UNCHANGED library_select

\* "Create!" and "Delete" of a library.
CreateLibrary ==
    /\ UserStarts(<<AjaxOp(Callback("created", 0), NoCallback)>>)
    /\ UNCHANGED library_select

DeleteLibrary ==
    /\ UserStarts(<<AjaxOp(Callback("deleted", 0), NoCallback)>>)
    /\ UNCHANGED library_select

\* "Run stress simulation!": validated first, launched if that succeeded.
LaunchSimulation ==
    /\ UserStarts(<<AjaxOp(Callback("checked", 0), NoCallback)>>)
    /\ UNCHANGED library_select

-----------------------------------------------------------------------------
(* Callbacks *)

Calling(fn) == Running("call") /\ Head(stack).callback.fn = fn
Arg == Head(stack).callback.arg

NothingToCall ==
    /\ Calling("none")
    /\ Becomes(<< >>)
    /\ UNCHANGED <<fx, ajaxVars, pageVars>>

\* notify: the message slides down, and up again after three seconds.  Both
\* are the slides of jrails.js.
Notified ==
    /\ Calling("notified")
    /\ Becomes(<<QueueOp(flash_messages, Slide("show", "slow"))>>)
    /\ timeouts' = Append(timeouts, "slideUp")
    /\ UNCHANGED <<fx, ajaxVars, html, library_select, files_list,
                   link_disabled, opened, bound, calls, thrown>>

\* The callbacks that only call the functions above.
Follow ==
    /\ \/ /\ Calling("notify")
          /\ Becomes(<<notify>>)
          /\ UNCHANGED timeouts
       \/ /\ Calling("created")
          /\ Becomes(<<notify, update_libraries_list>>)
          /\ UNCHANGED timeouts
       \/ /\ Calling("deleted")
          /\ Becomes(<<notify, update_libraries_list>>)
          /\ timeouts' = Append(timeouts, "update_file_list")
       \/ /\ Calling("checked")
          /\ \/ Becomes(<<notify>>)
             \/ Becomes(<<AjaxOp(NoCallback, Callback("notify", 0))>>)
          /\ UNCHANGED timeouts
    /\ UNCHANGED <<fx, ajaxVars, html, library_select, files_list,
                   link_disabled, opened, bound, calls, thrown>>

\* validate_abnf: countlines selects the line of the first error.  It
\* throws if that line is not in the text any more, or is after its end.
Validated ==
    /\ Calling("validated")
    /\ \/ /\ Becomes(<<FadeOut(validator_report,
                               Callback("show_report", Arg))>>)
          /\ UNCHANGED thrown
       \/ /\ Throw
          /\ thrown' = thrown + 1
    /\ UNCHANGED <<fx, ajaxVars, html, library_select, files_list,
                   link_disabled, opened, bound, timeouts, calls>>

ShowReport ==
    /\ Calling("show_report")
    /\ html' = Arg
    /\ Becomes(<<FadeIn(validator_report)>>)
    /\ UNCHANGED <<fx, ajaxVars, library_select, files_list, link_disabled,
                   opened, bound, timeouts, calls, thrown>>

\* update_libraries_list: the select is replaced by a new one.
FadeLibraries ==
    /\ Calling("libraries")
    /\ Becomes(<<FadeOut(library_select_div, Callback("show_libraries", 0))>>)
    /\ UNCHANGED <<fx, ajaxVars, pageVars>>

\* Mutant: the new select has no entry "all".
ShowLibrariesNone ==
    /\ Calling("show_libraries")
    /\ library_select' = "none"
    /\ Becomes(<<FadeIn(library_select_div)>>)
    /\ UNCHANGED <<fx, ajaxVars, html, files_list, link_disabled, opened,
                   bound, timeouts, calls, thrown>>

ShowLibraries ==
    /\ Calling("show_libraries")
    /\ library_select' = "all"
    /\ Becomes(<<FadeIn(library_select_div)>>)
    /\ UNCHANGED <<fx, ajaxVars, html, files_list, link_disabled, opened,
                   bound, timeouts, calls, thrown>>

ShowFiles ==
    /\ Calling("files")
    /\ files_list' = Arg
    /\ Becomes(<< >>)
    /\ UNCHANGED <<fx, ajaxVars, html, library_select, link_disabled, opened,
                   bound, timeouts, calls, thrown>>

\* The script of the new editor binds Alt+x again.
ReplaceEditor ==
    /\ Calling("editor")
    /\ bound' = bound + 1
    /\ Becomes(<< >>)
    /\ UNCHANGED <<fx, ajaxVars, html, library_select, files_list,
                   link_disabled, opened, timeouts, calls, thrown>>

EnableLinks ==
    /\ Calling("enable")
    /\ link_disabled' = FALSE
    /\ Becomes(<< >>)
    /\ UNCHANGED <<fx, ajaxVars, html, library_select, files_list, opened,
                   bound, timeouts, calls, thrown>>

\* setTimeout: three seconds for "slideUp", half a second for the other one;
\* those of the same delay fire in order.
Timeout(i) ==
    /\ stack = << >>
    /\ \A j \in 1 .. i - 1 : timeouts[j] # timeouts[i]
    /\ stack' = IF timeouts[i] = "slideUp"
                THEN <<QueueOp(flash_messages, Slide("hide", "slow"))>>
                ELSE <<update_file_list(library_select)>>
    /\ timeouts' = SubSeq(timeouts, 1, i - 1) \o
                   SubSeq(timeouts, i + 1, Len(timeouts))
    /\ UNCHANGED <<fx, ajaxVars, html, library_select, files_list,
                   link_disabled, opened, bound, calls, thrown>>

-----------------------------------------------------------------------------
User ==
    \/ Validate
    \/ HotKey
    \/ \E library \in Library \cup {"all"} : SelectLibrary(library)
    \/ Save
    \/ CreateLibrary
    \/ DeleteLibrary
    \/ LaunchSimulation
    \/ \E div \in Accordions : my_accordion(div)

Browser ==
    \/ JQueryStep /\ UNCHANGED pageVars
    \/ NothingToCall
    \/ Notified
    \/ Follow
    \/ Validated
    \/ ShowReport
    \/ FadeLibraries
    \/ ShowLibraries
    \/ ShowFiles
    \/ ReplaceEditor
    \/ EnableLinks
    \/ \E t \in DOMAIN timers : Tick(t) /\ UNCHANGED pageVars
    \/ \E i \in DOMAIN timeouts : Timeout(i)
    \/ \E r \in Request, ok \in BOOLEAN : Respond(r, ok) /\ UNCHANGED pageVars

\* The user has had enough.
Idle ==
    /\ stack = << >> /\ timers = << >> /\ timeouts = << >>
    /\ \A r \in Request : xhr[r].state # 1
    /\ UNCHANGED vars

Next == User \/ Browser \/ Idle

\* The browser runs scripts, intervals and timeouts, and every request is
\* answered or fails.  The user need not do anything.
Spec == Init /\ [][Next]_vars /\ WF_vars(Browser)

-----------------------------------------------------------------------------
(* Properties *)

\* Type invariant.
TypeOK ==
    /\ data \in [Elem -> Array \cup {NoArray}]
    /\ visible \in [Elem -> BOOLEAN]
    /\ timerId \in BOOLEAN
    /\ \A t \in DOMAIN timers : timers[t].elem \in Elem
    /\ \A r \in Request : xhr[r].state \in 0 .. 1
    /\ active \in Nat
    /\ html \in 0 .. MaxCalls
    /\ {library_select, files_list} \subseteq Library \cup {"all"}
    /\ link_disabled \in BOOLEAN
    /\ \A i \in DOMAIN timeouts :
          timeouts[i] \in {"slideUp", "update_file_list"}
    /\ bound \in 1 .. MaxCalls + 1
    /\ calls \in 0 .. MaxCalls

\* Between scripts jQuery.active counts the requests that are not answered
\* and, for ever, those whose callback threw: only countlines does that to
\* the global ajaxStop event.
ActiveCount ==
    stack = << >> =>
        active = thrown + Cardinality({r \in Request : xhr[r].state = 1})

\* However notifications, fades and clicks overlap, in the end the message
\* is gone, report and library list are there, the links work, and the one
\* open accordion is the one whose link was obeyed last.
Settled ==
    /\ ~visible[flash_messages]
    /\ visible[validator_report] /\ visible[library_select_div]
    /\ ~link_disabled
    /\ {a \in Accordions : visible[a]} = {opened} \ {"none"}
Settles == <>[]Settled
=============================================================================
