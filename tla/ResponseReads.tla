---------------------------- MODULE ResponseReads ----------------------------
(***************************************************************************)
(* The readers of a response body, one at a time: the event stream of the  *)
(* legacy plane (LiveStream), the ranges of a retained tool result         *)
(* (ToolCapture), the JSON documents of the Factory plane (Contract), the  *)
(* content of the events they carry (EventContent), and the text previewed *)
(* before its events (FactoryLiveText).                                    *)
(* They share no state; an initial state has something to read for one.    *)
(***************************************************************************)
EXTENDS LiveStream, ToolCapture, Contract, EventContent, FactoryLiveText

NoStream ==
    /\ sent = <<>> /\ body = <<>> /\ read = 0
    /\ buffer = <<>> /\ scanFrom = 1
    /\ event = "" /\ id = FALSE /\ data = [text |-> <<>>, lines |-> 0]
    /\ sawFieldLine = FALSE /\ sawCommentLine = FALSE
    /\ frames = <<>> /\ yielded = <<>>
    /\ pc = "closed" /\ returned = TRUE /\ aborted = TRUE /\ cuts = {}

NoViewer ==
    /\ mounted = FALSE /\ props = CHOOSE p \in Props : TRUE
    /\ store = [o \in Places |-> Gone] /\ held = [o \in Places |-> {}] /\ rewrites = MaxRewrites
    /\ effects = FALSE /\ state = Idle /\ current = 0 /\ reader = [g \in Loads |-> NotStarted]

NoDocument == wire = (CHOOSE d \in Documents : TRUE) /\ taken = wire /\ verdict = "refused"

NoContent ==
    /\ record = (CHOOSE r \in Records : TRUE) /\ streamed = 0 /\ aliens = 0
    /\ live = EmptyProse /\ committed = TRUE /\ shown = Rows(record)

NoPreview ==
    /\ loop = [l \in Loops |-> [running |-> FALSE, turn |-> 0, step |-> 1, chunk |-> 0]]
    /\ inbox = <<>> /\ published = MaxPublished /\ bad = 0 /\ late = 0
    /\ limits = (CHOOSE l \in Limits : TRUE) /\ generation = 0 /\ phase = "over"
    /\ liveText = <<>> /\ liveTextBytes = 0 /\ endedTurns = <<>> /\ suppressedLiveKeys = <<>>
    /\ sessionStopped = FALSE /\ liveFrame = FALSE /\ preview = <<>> /\ over = {}

ReadsInit ==
    \/ Init /\ NoViewer /\ NoDocument /\ NoContent /\ NoPreview
    \/ NoStream /\ CaptureInit /\ NoDocument /\ NoContent /\ NoPreview
    \/ NoStream /\ NoViewer /\ ContractInit /\ NoContent /\ NoPreview
    \/ NoStream /\ NoViewer /\ NoDocument /\ ContentInit /\ NoPreview
    \/ NoStream /\ NoViewer /\ NoDocument /\ NoContent /\ LiveTextInit

ReadsNext ==
    \/ Next /\ UNCHANGED <<captureVars, contractVars, contentVars, liveTextVars>>
    \/ CaptureNext /\ UNCHANGED <<vars, contractVars, contentVars, liveTextVars>>
    \/ ValidateFactory /\ UNCHANGED <<vars, captureVars, contentVars, liveTextVars>>
    \/ ContentNext /\ UNCHANGED <<vars, captureVars, contractVars, liveTextVars>>
    \/ LiveTextNext /\ UNCHANGED <<vars, captureVars, contractVars, contentVars>>

readsVars == <<vars, captureVars, contractVars, contentVars, liveTextVars>>

ReadsSpec == ReadsInit /\ [][ReadsNext]_readsVars
=============================================================================
