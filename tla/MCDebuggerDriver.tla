--------------------------- MODULE MCDebuggerDriver ---------------------------
(***************************************************************************)
(* TLC instances of DebuggerDriver.  Script 1 is loaded from lib/app.js    *)
(* and names no source map; script 2 is a bundle with one, whose source is *)
(* app.js, lib/app.js or test/app.js.  A breakpoint that asks for app.js   *)
(* finds the first exactly and the others by their path, so that a friendly*)
(* match may be ambiguous, and may be overtaken by an exact one.           *)
(***************************************************************************)
EXTENDS DebuggerDriver

MCUrls == {"app.js", "lib/app.js", "test/app.js", "bundle.js"}

MCScriptUrl == <<"lib/app.js", "bundle.js">>

MCFriendlyPairs ==
    {<<u, v>> \in MCUrls \X MCUrls : u # v /\ {u, v} \cap {"bundle.js"} = {}
                                     /\ "app.js" \in {u, v}}

MCContents == {"module", "bundle"}

MCScriptText == <<"module", "bundle">>

\* Both scripts may come from the same file.
MCViews == {{[url |-> u, content |-> "module"]} : u \in MCUrls \ {"bundle.js"}}

MCMappingResults == {{}, {0}}

\* Two breakpoints that may share positions, with scripts announced again and
\* one failure of any kind.
SharedBreakpoints ==
    [specs |-> {SpecFor(1, "app.js", 0), SpecFor(2, "lib/app.js", 0)}, batch |-> 2,
     versions |-> <<2, 2>>, generations |-> <<2, 1>>, stacks |-> {}, pauses |-> 0,
     events |-> 1, failing |-> Failures, failures |-> 1]

\* A breakpoint that is replaced by one with a condition.
ConditionalBreakpoints ==
    [SharedBreakpoints EXCEPT !.specs = @ \cup {SpecFor(1, "app.js", 1)},
                              !.versions = <<1, 1>>]

\* A session that pauses twice, one breakpoint, and two events on their way.
Pauses ==
    [specs |-> {SpecFor(1, "app.js", 0)}, batch |-> 1, versions |-> <<2, 1>>,
     generations |-> <<1, 1>>, stacks |-> {<<1>>, <<2, 1>>}, pauses |-> 2,
     events |-> 2, failing |-> Failures, failures |-> 1]

\* A breakpoint that is set, replaced and set anew while sources fail twice.
TwoFailures ==
    [specs |-> {SpecFor(1, "app.js", 0), SpecFor(1, "lib/app.js", 0)}, batch |-> 1,
     versions |-> <<1, 1>>, generations |-> <<2, 1>>, stacks |-> {}, pauses |-> 0,
     events |-> 1, failing |-> {"fetch", "build", "drain"}, failures |-> 2]

MCBounds == {SharedBreakpoints, ConditionalBreakpoints, Pauses, TwoFailures}
=============================================================================
