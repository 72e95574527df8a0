------------------------------ MODULE PageViews ------------------------------
(***************************************************************************)
(* What the pages of an application keep of a session: the legacy view's   *)
(* owner (SessionViewStore) and Factory's (FactoryViewStore), the session  *)
(* list (SessionList) and the probe of the host (Reachability).  They      *)
(* share no state; an initial state has something to do for one.           *)
(***************************************************************************)
EXTENDS SessionViewStore, FactoryViewStore, SessionList, Reachability

\* A store that may start nothing more.
NoView ==
    /\ habit = (CHOOSE h \in Habits : TRUE)
    /\ active = FALSE /\ binding = "live" /\ generation = MaxGeneration
    /\ joins = <<>> /\ abortController = 0 /\ offVisibility = 0 /\ onVisibility = {}
    /\ current = Empty /\ published = Empty /\ dirty = FALSE
    /\ stalePublication = FALSE /\ frame = "none" /\ urgentFlush = FALSE
    /\ reports = FreshReports /\ hidden = FALSE
    /\ calls = <<Suspend("startJoin", 0, FALSE, "nobody")>> /\ microtasks = <<>>
    /\ status = [state |-> "idle", warned |-> FALSE] /\ candidate = "none"
    /\ wanted = "nothing" /\ urgent = Empty

\* A store whose runs are over, of a journal that is full.
NoFactoryView ==
    /\ log = [s \in 1..MaxSeq |-> [public |-> FALSE, id |-> 0]] /\ cuts = MaxTruncations
    /\ controller = 0 /\ lifecycleToken = MaxStarts
    /\ iterators = [r \in 1..MaxStarts |->
                      [token |-> r, cursor |-> 0, opened |-> 0, offer |-> NoOffer,
                       aborted |-> TRUE, at |-> "left"]]
    /\ coveredThrough = 0 /\ edge = 0 /\ shown = <<>>

\* A page that was left, and reads no more.
NoList ==
    /\ mounted = FALSE /\ query = (CHOOSE q \in Queries : TRUE) /\ effectRead = NoRead
    /\ reads = [r \in 1..MaxReads |-> [query |-> query, aborted |-> FALSE, heard |-> TRUE,
                                       outcome |-> "empty"]]
    /\ page = NoPage /\ loading = FALSE /\ error = "none"

NoProbe ==
    /\ watching = FALSE /\ state = "reachable" /\ probeError = FALSE
    /\ sawNotify = FALSE /\ failingFor = NotFailing /\ request = "none" /\ up = TRUE
    /\ silentFor = 0 /\ failures = 0

ViewsInit ==
    \/ Init /\ NoFactoryView /\ NoList /\ NoProbe
    \/ NoView /\ FactoryInit /\ NoList /\ NoProbe
    \/ NoView /\ NoFactoryView /\ ListInit /\ NoProbe
    \/ NoView /\ NoFactoryView /\ NoList /\ ProbeInit

ViewsNext ==
    \/ Next /\ UNCHANGED <<factoryVars, listVars, probeVars>>
    \/ FactoryNext /\ UNCHANGED <<vars, listVars, probeVars>>
    \/ ListNext /\ UNCHANGED <<vars, factoryVars, probeVars>>
    \/ ProbeNext /\ UNCHANGED <<vars, factoryVars, listVars>>

ViewsSpec ==
    /\ ViewsInit /\ [][ViewsNext]_<<vars, factoryVars, listVars, probeVars>>
    /\ Fairness /\ ProbeFairness
=============================================================================
