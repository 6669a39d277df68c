---------------------------- MODULE FrameHeight ----------------------------
(***************************************************************************)
(* How tall the game's frame is: a loop between the game, which reports    *)
(* the height of its document (guest.ts), and the host, which sizes the    *)
(* frame by the reports and the screen (use-reported-content-height.ts,    *)
(* use-available-game-height.ts, GameFrame.tsx, GameViewport.tsx).  The    *)
(* game's document fills whatever frame it is given and the height it was  *)
(* told is available, and at a fractional zoom every measurement may be a  *)
(* pixel off.  A report arrives before the next animation frame.          *)
(***************************************************************************)
EXTENDS Integers, Sequences, FiniteSets

CONSTANTS
    Unknown,
    Pages       \* the page: the screen's height, how much of it is beside the
                \* frame, the cap of the frame's height and the height it has by
                \* its width; how tall the game may be; rounding errors;
                \* changes of its layout, turns of fullscreen: bounds

ASSUME FrameAssumption ==
    /\ Unknown \notin Nat
    /\ Pages \subseteq [screen : Nat, beside : Nat, cap : Nat, base : Nat, games : SUBSET Nat,
                        rounding : SUBSET {0, 1}, layouts : Nat, turns : Nat]

VARIABLES
    page,
    game,       \* how tall the game is by itself
    tallest,    \* the most it has been
    full,       \* document.fullscreenElement === iframe
    gate,
    lastAccepted, reportedContentHeight, availableHeight,
    measure,    \* scheduleUpdate: a measurement is due
    contentMinHeight,
    hint,       \* the available height the game was last told
    report,     \* the game's report is due
    reports     \* reportContentSize calls on their way

frameVars == <<page, game, tallest, full, gate, lastAccepted, reportedContentHeight,
               availableHeight, measure, contentMinHeight, hint, report, reports>>

Border == 2
Tallest(heights) == CHOOSE h \in heights : \A other \in heights : h >= other
Least(a, b) == IF a < b THEN a ELSE b
Distance(a, b) == IF a < b THEN b - a ELSE a - b
Known(h) == IF h = Unknown THEN 0 ELSE h

\* The box of GameViewport, given its minHeight, and the frame in it.
Box(minHeight) == Tallest({page.base, Least(Known(minHeight), page.cap)})
FrameOf(minHeight) == Box(minHeight) - Border
Document == Tallest({game, hint, IF full THEN page.screen ELSE FrameOf(contentMinHeight)})

FrameInit ==
    /\ page \in Pages /\ game \in page.games /\ tallest = game
    /\ full = FALSE /\ gate = [mode |-> "open", height |-> Unknown]
    /\ lastAccepted = Unknown /\ reportedContentHeight = Unknown /\ availableHeight = Unknown
    /\ measure = TRUE /\ contentMinHeight = Unknown
    /\ hint = 0 /\ report = TRUE /\ reports = <<>>

-----------------------------------------------------------------------------
\* The effect of GameFrame and handleContentSize: sub-2px changes are ignored.
Sized(reported, available) ==
    LET height == Tallest({Known(reported), Known(available)})
        next == Least(Tallest({height + Border, 320}), 2400)
    IN  IF height = 0 \/ (contentMinHeight # Unknown /\ Distance(next, contentMinHeight) <= 2)
        THEN contentMinHeight ELSE next

\* update of useAvailableGameHeight.
Measured ==
    /\ measure
    /\ \E r \in page.rounding :
         LET next == IF full THEN page.screen
                     ELSE Tallest({0, Least(page.screen - page.beside, page.cap - Border) - r})
             known == availableHeight # Unknown /\ ~full /\ Distance(next, availableHeight) <= 2
         IN  availableHeight' = IF known THEN availableHeight ELSE next
    /\ contentMinHeight' = Sized(reportedContentHeight, availableHeight')
    /\ LET same == full \/ FrameOf(contentMinHeight') = FrameOf(contentMinHeight)
       IN  /\ measure' = ~same
           /\ IF same THEN report' = report ELSE report' \in {report, TRUE}
    /\ UNCHANGED <<page, game, tallest, full, gate, lastAccepted, reportedContentHeight, hint,
                   reports>>

\* The snapshot with ui.viewport.availableHeight reaches the game.
HintArrives ==
    /\ Known(availableHeight) # hint
    /\ hint' = Known(availableHeight) /\ report' = TRUE
    /\ UNCHANGED <<page, game, tallest, full, gate, lastAccepted, reportedContentHeight,
                   availableHeight, measure, contentMinHeight, reports>>

-----------------------------------------------------------------------------
\* The game

Relayout ==
    /\ page.layouts > 0
    /\ page' = [page EXCEPT !.layouts = @ - 1]
    /\ game' \in page.games \ {game}
    /\ tallest' = Tallest({tallest, game'})
    /\ report' = TRUE
    /\ UNCHANGED <<full, gate, lastAccepted, reportedContentHeight, availableHeight, measure,
                   contentMinHeight, hint, reports>>

\* reportGameContentSize, in an animation frame of the game.
Report ==
    /\ report /\ reports = <<>>
    /\ report' = FALSE
    /\ \E r \in page.rounding : reports' = Append(reports, Document + r)
    /\ UNCHANGED <<page, game, tallest, full, gate, lastAccepted, reportedContentHeight,
                   availableHeight, measure, contentMinHeight, hint>>

-----------------------------------------------------------------------------
\* useReportedContentHeight

AcceptReport(height) ==
    /\ gate' = [mode |-> "open", height |-> Unknown]
    /\ lastAccepted' = height /\ reportedContentHeight' = height
    /\ contentMinHeight' = Sized(height, availableHeight)
    /\ IF FrameOf(contentMinHeight') = FrameOf(contentMinHeight) THEN UNCHANGED <<measure, report>>
       ELSE measure' = TRUE /\ report' \in {report, TRUE}

Ignore == UNCHANGED <<gate, lastAccepted, reportedContentHeight, contentMinHeight, measure, report>>

\* Mutation: only what is reported in fullscreen is dropped.
ReportArrivesUngated ==
    /\ reports # <<>> /\ reports' = Tail(reports)
    /\ IF gate.mode = "fullscreen" THEN Ignore ELSE AcceptReport(Head(reports))
    /\ UNCHANGED <<page, game, tallest, full, availableHeight, hint>>

\* reportContentHeight: not in fullscreen, nor an echo of it.
ReportArrives ==
    /\ reports # <<>> /\ reports' = Tail(reports)
    /\ IF \/ gate.mode = "fullscreen"
          \/ gate.mode = "restoring" /\ Distance(Head(reports), gate.height) <= 2
       THEN Ignore ELSE AcceptReport(Head(reports))
    /\ UNCHANGED <<page, game, tallest, full, availableHeight, hint>>

\* handleFullscreenChange, and what the change of the width brings about.
EnterFullscreen ==
    /\ ~full /\ page.turns > 0
    /\ page' = [page EXCEPT !.turns = @ - 1]
    /\ full' = TRUE /\ gate' = [mode |-> "fullscreen", height |-> lastAccepted]
    /\ measure' = TRUE /\ report' = TRUE
    /\ UNCHANGED <<game, tallest, lastAccepted, reportedContentHeight, availableHeight,
                   contentMinHeight, hint, reports>>

\* Nobody leaves before what fullscreen set off has come to an end.
LeaveFullscreen ==
    /\ full /\ ~measure /\ ~report /\ reports = <<>> /\ hint = availableHeight
    /\ full' = FALSE /\ gate' = [mode |-> "restoring", height |-> FrameOf(contentMinHeight)]
    /\ reportedContentHeight' = gate.height
    /\ contentMinHeight' = Sized(gate.height, availableHeight)
    /\ measure' = TRUE /\ report' = TRUE
    /\ UNCHANGED <<page, game, tallest, lastAccepted, availableHeight, hint, reports>>

FrameNext ==
    Measured \/ HintArrives \/ Relayout \/ Report \/ ReportArrives \/ EnterFullscreen
    \/ LeaveFullscreen

\* Animation frames come, messages arrive.
FrameFairness ==
    /\ WF_frameVars(Measured) /\ WF_frameVars(HintArrives)
    /\ WF_frameVars(Report) /\ WF_frameVars(ReportArrives)

-----------------------------------------------------------------------------
\* "The container would never shrink back": outside fullscreen the frame comes to
\* be no taller than the game has been by itself, the space there is and the
\* frame's width make it, but for what rounding and the slack may add.
FrameShrinksBack ==
    <>[](~full => FrameOf(contentMinHeight) <=
            3 + Tallest({tallest, hint, page.base - Border, 320 - Border}))

\* The game gets the height it needs, within the frame's bounds: nothing a player
\* must scroll to inside the frame.
FrameFitsTheGame ==
    <>[](~full => FrameOf(contentMinHeight) + 2 >= Least(game, Least(page.cap, 2400) - Border))

\* So the frame comes to fit the game, and keeps nothing of a turn of fullscreen
\* (which ends when nothing is on its way): it need not get lower than the tallest
\* the game has been.
FrameFollowsTheGame == FrameShrinksBack /\ FrameFitsTheGame
=============================================================================
