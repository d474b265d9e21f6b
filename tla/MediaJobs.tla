------------------------------ MODULE MediaJobs ------------------------------
(***************************************************************************)
(* The controller's jobs on media (src/src/app/editor_controller.cpp): the *)
(* serial queue of previews (thumbnails and waveforms, which are handled   *)
(* alike and are one kind here), the proxies, their worker sessions, and   *)
(* the cache both put their results into.                                  *)
(*                                                                         *)
(* A session posts the ends of its job and of its process to itself, and   *)
(* deleteLater() posts its deletion; the event loop delivers these calls   *)
(* in order before it looks at a process or at the user again.  Workers    *)
(* write to worker-staging/<asset> and to <asset>.proxy with its .vepts,   *)
(* one file each per asset.                                                *)
(*                                                                         *)
(* A handler runs to its end without another, so it is an operator on the  *)
(* controller; where a worker or the file system decides, it is the set of *)
(* outcomes.  The worker host is taken to be installed: the in-process     *)
(* fallback is not modelled.                                               *)
(***************************************************************************)
EXTENDS Naturals, Subsequences, SequencesExt

CONSTANTS
    Assets,        \* media of the projects
    AssetOrder,    \* the assets in the order of Project::assets
    Proxied,       \* those should_recommend_proxy says yes to
    PreviewBytes, ProxyBytes, MapBytes,
    Budget,        \* the budget at first
    Budgets,       \* budgets the user may set
    Fragile,       \* keys of the rows an eviction may fail to delete
    Hosts,         \* numbers of worker sessions, 1 .. n
    MaxLink,       \* how often a medium is relinked
    MaxAsks,       \* bound on what the user does and on crashes
    Nothing

ASSUME OrderAssumption ==
    AssetOrder \in Seq(Assets) /\ ToSet(AssetOrder) = Assets /\ Proxied \subseteq Assets
ASSUME BoundAssumption == Hosts \subseteq Nat \ {0} /\ MaxLink \in Nat /\ MaxAsks \in Nat

Links == 0 .. MaxLink
Keys == (Assets \X {"preview"}) \cup (Proxied \X {"proxy", "map"})
C == INSTANCE CacheStore WITH None <- Nothing

PreviewKey(a) == <<a, "preview">>
ProxyKey(a) == <<a, "proxy">>
MapKey(a) == <<a, "map">>

\* What a worker makes of an asset as it is linked at the time.
Content(a, link, bytes) == [of |-> a, link |-> link, bytes |-> bytes]
Contents == [of : Assets, link : Links, bytes : {PreviewBytes, ProxyBytes, MapBytes}]

ASSUME NothingAssumption == Nothing \notin Assets \cup Contents

VARIABLES
    project,     \* imported_assets_ that are online
    link,        \* the file each asset is linked to
    paused,      \* background_admission_paused_
    jobQueue,    \* cache_job_queue_
    jobRunning,  \* cache_job_running_
    generation,  \* cache_job_generation_
    session,     \* cache_session_, 0 for none
    temp,        \* the asset whose staging path cache_temp_result_ is, or Nothing
    full,        \* cache_disk_full_
    shown,       \* media_thumbnails_ and media_waveforms_
    proxies,     \* the assets whose record has a complete proxy
    autoq,       \* proxy_auto_queue_
    proxyJob,    \* proxy_jobs_: the session of each asset, 0 for none
    cache,       \* media_cache_
    hosts,       \* the worker sessions
    calls,       \* calls sessions have posted to themselves, and deleteLater()
    staged,      \* what workers have written
    asks         \* what the user has done so far (a bound, not in the code)

jobs == <<project, link, paused, jobQueue, jobRunning, generation, session, temp, full,
          shown, proxies, autoq, proxyJob, cache, hosts, calls, staged, asks>>

\* The state as a record the handlers work on, and as the next one.
Now ==
    [project |-> project, link |-> link, paused |-> paused, jobQueue |-> jobQueue,
     jobRunning |-> jobRunning, generation |-> generation, session |-> session, temp |-> temp,
     full |-> full, shown |-> shown, proxies |-> proxies, autoq |-> autoq,
     proxyJob |-> proxyJob, cache |-> cache, hosts |-> hosts, calls |-> calls,
     staged |-> staged]
Becomes(m) ==
    /\ project' = m.project /\ link' = m.link /\ paused' = m.paused /\ jobQueue' = m.jobQueue
    /\ jobRunning' = m.jobRunning /\ generation' = m.generation /\ session' = m.session
    /\ temp' = m.temp /\ full' = m.full /\ shown' = m.shown /\ proxies' = m.proxies
    /\ autoq' = m.autoq /\ proxyJob' = m.proxyJob /\ cache' = m.cache
    /\ hosts' = m.hosts /\ calls' = m.calls /\ staged' = m.staged

JobCalls == {"event", "startFailed", "finished", "delete"}
Gone == [phase |-> "none"]
Exists(h) == hosts[h].phase # "none"

\* Every call that is posted, the running preview and every proxy job have a
\* session; the cache keeps one row per key.
JobsTypeOK ==
    /\ project \subseteq Assets /\ link \in [Assets -> Links] /\ paused \in BOOLEAN
    /\ jobQueue \in Seq(Assets) /\ generation \in 0 .. MaxAsks /\ asks \in 0 .. MaxAsks /\ full \in BOOLEAN
    /\ jobRunning = (session # 0) /\ jobRunning = (temp # Nothing)
    /\ session # 0 => Exists(session) /\ hosts[session].kind = "preview"
    /\ temp # Nothing => hosts[session].of = temp
    /\ shown \in [Assets -> Contents \cup {Nothing}]
    /\ proxies \subseteq Proxied /\ autoq \in Seq(Proxied)
    /\ \A a \in Proxied : proxyJob[a] # 0 =>
           /\ Exists(proxyJob[a])
           /\ hosts[proxyJob[a]].kind = "proxy" /\ hosts[proxyJob[a]].of = a
    /\ \A i \in DOMAIN calls : calls[i].call \in JobCalls /\ Exists(calls[i].host)
    /\ \A i, j \in DOMAIN cache.rows : cache.rows[i].key = cache.rows[j].key => i = j

(***************************************************************************)
(* Worker sessions.                                                        *)
(***************************************************************************)
Free(m) == {h \in Hosts : m.hosts[h].phase = "none"}
NewHost(m) == CHOOSE h \in Free(m) : \A other \in Free(m) : h <= other

Post(m, h, call, result) ==
    [m EXCEPT !.calls = Append(@, [call |-> call, host |-> h, result |-> result])]
PostEvents(m, h, results) ==
    [m EXCEPT !.calls = @ \o [i \in DOMAIN results |->
                                [call |-> "event", host |-> h, result |-> results[i]]]]

\* What a worker answers before its process ends: nothing, the end of its
\* job, and once it was asked to cancel perhaps the rejection of a
\* cancellation that came after the end.
Answers(m, h) ==
    {<<>>, <<"succeeded">>, <<"failed">>}
        \cup (IF m.hosts[h].asked THEN {<<"cancelled">>, <<"succeeded", "failed">>} ELSE {})

\* A worker that has succeeded has replaced its output.
Written(m, h) ==
    LET w == m.hosts[h]
    IN  IF w.kind = "preview"
        THEN [m EXCEPT !.staged.preview[w.of] = Content(w.of, w.link, PreviewBytes)]
        ELSE [m EXCEPT !.staged.proxy[w.of] = Content(w.of, w.link, ProxyBytes),
                       !.staged.map[w.of] = Content(w.of, w.link, MapBytes)]

Answer(m, h, results) ==
    PostEvents(IF results # <<>> /\ results[1] = "succeeded" THEN Written(m, h) ELSE m,
               h, results)

AskToCancel(m, h) ==
    IF h # 0 /\ m.hosts[h].phase = "working"
    THEN [m EXCEPT !.hosts[h].asked = TRUE] ELSE m

\* deleteLater().
DeleteLater(m, h) == IF h = 0 THEN m ELSE Post(m, h, "delete", "")

FailToStart(m, h) ==
    Post(Post([m EXCEPT !.hosts[h].phase = "gone"], h, "startFailed", ""), h, "finished", "")
Finished(m, h) == Post([m EXCEPT !.hosts[h].phase = "gone"], h, "finished", "")

\* waitUntilFinished: the process is followed to its end and everything it
\* says is posted.
Waited(m, h) ==
    IF h = 0 \/ m.hosts[h].phase = "gone" THEN {m}
    ELSE IF m.hosts[h].phase = "exiting" THEN {Finished(m, h)}
    ELSE {FailToStart(m, h)}
             \cup {Finished(Answer(m, h, results), h) : results \in Answers(m, h)}

(***************************************************************************)
(* The queue of previews.                                                  *)
(***************************************************************************)
StartSession(m, kind, a) ==
    [m EXCEPT !.hosts[NewHost(m)] =
        [phase |-> "working", kind |-> kind, of |-> a, link |-> m.link[a],
         generation |-> m.generation, asked |-> FALSE]]

\* Mutant of PumpCacheJobs: what lies at the path is left there.
PumpCacheJobsOver(m) ==
    LET here == {i \in DOMAIN m.jobQueue : m.jobQueue[i] \in m.project}
        first == CHOOSE i \in here : \A j \in here : i <= j
        a == m.jobQueue[first]
    IN  IF m.paused \/ m.jobRunning \/ m.full THEN m
        ELSE IF here = {} THEN [m EXCEPT !.jobQueue = <<>>]
        ELSE [StartSession(m, "preview", a) EXCEPT
                 !.jobQueue = SubSeq(@, first + 1, Len(@)),
                 !.jobRunning = TRUE, !.session = NewHost(m), !.temp = a]

\* Takes the first asset of the queue that is in the project, removes what an
\* earlier job may have left at its path and starts a session for it.
PumpCacheJobs(m) ==
    LET here == {i \in DOMAIN m.jobQueue : m.jobQueue[i] \in m.project}
        first == CHOOSE i \in here : \A j \in here : i <= j
        a == m.jobQueue[first]
    IN  IF m.paused \/ m.jobRunning \/ m.full THEN m
        ELSE IF here = {} THEN [m EXCEPT !.jobQueue = <<>>]
        ELSE [StartSession(m, "preview", a) EXCEPT
                 !.jobQueue = SubSeq(@, first + 1, Len(@)),
                 !.jobRunning = TRUE, !.session = NewHost(m), !.temp = a,
                 !.staged.preview[a] = Nothing]

\* The session of the running job goes, whichever session the outcome is of.
EndCacheJob(m) ==
    [DeleteLater(m, m.session) EXCEPT
        !.session = 0, !.jobRunning = FALSE, !.temp = Nothing,
        !.staged.preview = [a \in Assets |-> IF a = m.temp THEN Nothing ELSE @[a]]]

\* Mutant of FinishCacheJob: an outcome of an earlier generation is dropped
\* where it is looked at.
FinishCacheJobDropped(m, outcome) ==
    LET ended == EndCacheJob(m)
    IN  IF outcome.generation # m.generation THEN ended
        ELSE IF outcome.result = "full"
        THEN [ended EXCEPT !.full = TRUE, !.jobQueue = <<>>]
        ELSE PumpCacheJobs(
                 IF outcome.result = "succeeded"
                 THEN [ended EXCEPT !.shown[outcome.of] = outcome.shown] ELSE ended)

\* outcome: the asset, the generation it was started in, whether it succeeded
\* or found the cache full, and what is to be shown.
FinishCacheJob(m, outcome) ==
    LET ended == EndCacheJob(m)
    IN  IF outcome.generation = m.generation /\ outcome.result = "full"
        THEN [ended EXCEPT !.full = TRUE, !.jobQueue = <<>>]
        ELSE PumpCacheJobs(
                 IF outcome.generation = m.generation /\ outcome.result = "succeeded"
                 THEN [ended EXCEPT !.shown[outcome.of] = outcome.shown] ELSE ended)

LoadCachedPreviews(m, a) ==
    IF m.jobRunning \/ ~C!Found(m.cache, PreviewKey(a)) THEN m
    ELSE [m EXCEPT !.shown[a] = m.cache.blobs[PreviewKey(a)],
                   !.cache = C!Fetched(@, PreviewKey(a))]

EnqueueMediaCacheJobs(m, a) ==
    IF m.full THEN m
    ELSE PumpCacheJobs(IF m.shown[a] = Nothing THEN [m EXCEPT !.jobQueue = Append(@, a)] ELSE m)

\* Stops the running job and forgets the queue; the calls its session has
\* posted are still to come.  The wait may time out.
WaitForInFlightCacheJob(m) ==
    LET asked == [AskToCancel(m, m.session) EXCEPT !.generation = @ + 1, !.jobQueue = <<>>]
    IN  {EndCacheJob(waited) : waited \in {asked} \cup Waited(asked, m.session)}

\* The handlers of a preview's session.  The event handler puts the file of
\* the job that is running now under the key of its own.
Outcome(w, result, picture) ==
    [of |-> w.of, generation |-> w.generation, result |-> result, shown |-> picture]

AdoptPreview(m, w) ==
    C!PutFile(m.cache, PreviewKey(w.of),
              IF m.temp = Nothing THEN Nothing ELSE m.staged.preview[m.temp])

PreviewEvent(m, w, result) ==
    IF result # "succeeded"
    THEN {FinishCacheJob(m, Outcome(w, result, Nothing))}
    ELSE {LET key == PreviewKey(w.of)
              done == put.result = "stored"
              stored == [m EXCEPT !.cache = IF done THEN C!Fetched(put.cache, key)
                                            ELSE put.cache]
          IN  FinishCacheJob(stored,
                  Outcome(w, IF done THEN "succeeded" ELSE put.result,
                          IF done THEN put.cache.blobs[key] ELSE Nothing)) : put \in AdoptPreview(m, w)}

PreviewFinished(m, w) ==
    IF ~m.jobRunning THEN m
    ELSE FinishCacheJob(m, Outcome(w, "failed", Nothing))

(***************************************************************************)
(* Proxies.                                                                *)
(***************************************************************************)
\* The user's button cancels a proxy that is being made; otherwise one is
\* started unless the record has one.
GenerateProxy(m, a) ==
    IF m.proxyJob[a] # 0 THEN AskToCancel(m, m.proxyJob[a])
    ELSE IF a \notin m.project \/ a \in m.proxies THEN m
    ELSE [StartSession(m, "proxy", a) EXCEPT !.proxyJob[a] = NewHost(m)]

\* Queued proxies are started one at a time.
PumpProxyQueue(m) ==
    LET ready == {i \in DOMAIN m.autoq : m.autoq[i] \in m.project \ m.proxies}
        first == CHOOSE i \in ready : \A j \in ready : i <= j
    IN  IF m.paused \/ \E a \in Proxied : m.proxyJob[a] # 0 THEN m
        ELSE IF ready = {} THEN [m EXCEPT !.autoq = <<>>]
        ELSE GenerateProxy([m EXCEPT !.autoq = SubSeq(@, first + 1, Len(@))], m.autoq[first])

ScheduleRecommendedProxies(m) ==
    LET wanted == {a \in (Proxied \cap m.project) \ m.proxies :
                      m.proxyJob[a] = 0 /\ a \notin ToSet(m.autoq)}
        places == {i \in DOMAIN AssetOrder : AssetOrder[i] \in wanted}
    IN  PumpProxyQueue([m EXCEPT !.autoq = @ \o Part(AssetOrder, places)])

\* One file of a finished proxy goes into the cache, where it is looked up at
\* once; a file that was stored is no longer where the worker wrote it.
Adopted(m, key, file) ==
    {[m EXCEPT !.cache = IF put.result = "stored" THEN C!Fetched(put.cache, key)
                         ELSE put.cache,
               !.full = @ \/ (put.result = "full" /\ key[2] = "proxy"),
               !.staged[key[2]][key[1]] = IF put.result = "stored" THEN Nothing ELSE @] :
        put \in C!PutFile(m.cache, key, file)}

\* The proxy and its map are put one after the other: the second put may evict
\* the first file, and is done when the first was refused.
AdoptProxy(m, a) ==
    UNION {Adopted(n, MapKey(a), m.staged.map[a]) :
               n \in Adopted(m, ProxyKey(a), m.staged.proxy[a])}

\* Mutant of FinishProxyJob: the record is not looked for.
FinishProxyJobUnseen(m, a, succeeded) ==
    LET ended == [DeleteLater(m, m.proxyJob[a]) EXCEPT !.proxyJob[a] = 0]
        complete == [ended EXCEPT !.proxies = @ \cup {a}]
    IN  IF m.proxyJob[a] = 0 THEN {m}
        ELSE IF ~succeeded THEN {PumpProxyQueue(ended)}
        ELSE {PumpProxyQueue(n) :
                  n \in UNION {AdoptProxy(waited, a) :
                                waited \in {complete} \cup Waited(complete, m.session)}}

\* The end of a proxy's session: its result becomes the proxy of the record
\* that has the id now.  The cache is used only when no preview is being made,
\* so the end of the running one is waited for.  (The message about a full
\* cache runs an event loop between the two puts; it is taken as one step.)
FinishProxyJob(m, a, succeeded) ==
    LET ended == [DeleteLater(m, m.proxyJob[a]) EXCEPT !.proxyJob[a] = 0]
        complete == [ended EXCEPT !.proxies = @ \cup {a}]
    IN  IF m.proxyJob[a] = 0 THEN {m}
        ELSE IF ~succeeded \/ a \notin m.project THEN {PumpProxyQueue(ended)}
        ELSE {PumpProxyQueue(n) :
                  n \in UNION {AdoptProxy(waited, a) :
                                waited \in {complete} \cup Waited(complete, m.session)}}

\* discover_proxy: a proxy and a map whose fingerprint is that of the source,
\* in the cache or else where the worker wrote them.
Discover(m, a) ==
    LET found == C!Found(m.cache, ProxyKey(a))
        Fits(proxy, map) == proxy # Nothing /\ map # Nothing /\ map.link = m.link[a]
        cached == /\ found /\ C!Found(m.cache, MapKey(a))
                  /\ Fits(m.cache.blobs[ProxyKey(a)], m.cache.blobs[MapKey(a)])
    IN  [m EXCEPT !.cache = IF found THEN C!Fetched(C!Fetched(@, ProxyKey(a)), MapKey(a))
                            ELSE @,
                  !.proxies = IF cached \/ Fits(m.staged.proxy[a], m.staged.map[a])
                              THEN @ \cup {a} ELSE @]

(***************************************************************************)
(* What the user does.                                                     *)
(***************************************************************************)
\* reconstruct_media_records, and the loops over imported_assets_ that look up
\* what is cached of each and, for enqueue, put the rest into the queue.
DiscoverAll(m) ==
    LET found[n \in 0 .. Len(AssetOrder)] ==
            IF n = 0 THEN m
            ELSE IF AssetOrder[n] \in Proxied \cap m.project
            THEN Discover(found[n - 1], AssetOrder[n]) ELSE found[n - 1]
    IN  found[Len(AssetOrder)]

LoadAll(m, enqueue) ==
    LET Loaded(n, a) ==
            IF enqueue THEN EnqueueMediaCacheJobs(LoadCachedPreviews(n, a), a)
            ELSE LoadCachedPreviews(n, a)
        after[n \in 0 .. Len(AssetOrder)] ==
            IF n = 0 THEN m
            ELSE IF AssetOrder[n] \in m.project
            THEN Loaded(after[n - 1], AssetOrder[n]) ELSE after[n - 1]
    IN  after[Len(AssetOrder)]

\* reconstructMediaState: the controller's state is that of the project the
\* model m has been given.
Reconstruct(m) ==
    LET cleared == [m EXCEPT !.shown = [a \in Assets |-> Nothing], !.full = FALSE,
                             !.proxies = {}, !.autoq = <<>>,
                             !.hosts = [h \in Hosts |->
                                 IF \E a \in Proxied : m.proxyJob[a] = h
                                 THEN AskToCancel(m, h).hosts[h] ELSE m.hosts[h]]]
    IN  ScheduleRecommendedProxies(LoadAll(DiscoverAll(cleared), TRUE))

Open(assets) ==
    \E m \in WaitForInFlightCacheJob(Now) :
        Becomes(Reconstruct([m EXCEPT !.project = assets]))

Import(a) ==
    /\ a \notin project
    /\ Becomes(ScheduleRecommendedProxies(
           EnqueueMediaCacheJobs([Now EXCEPT !.project = @ \cup {a}], a)))

\* The running proxy and preview of the old source go on.
Relink(a) ==
    /\ a \in project /\ link[a] < MaxLink
    /\ Becomes(ScheduleRecommendedProxies(EnqueueMediaCacheJobs(
           [Now EXCEPT !.link[a] = @ + 1, !.proxies = @ \ {a}, !.shown[a] = Nothing], a)))

AskForProxy(a) ==
    /\ a \in project \ proxies
    /\ proxyJob[a] # 0 => ~hosts[proxyJob[a]].asked
    /\ Becomes(GenerateProxy(Now, a))

Pause ==
    /\ ~paused
    /\ Becomes([Now EXCEPT !.paused = TRUE])
Resume ==
    /\ paused
    /\ Becomes(PumpCacheJobs(PumpProxyQueue([Now EXCEPT !.paused = FALSE])))

\* What the cache browser does is refused while a preview is being made; a
\* budget is the application's setting all the same.
HandleCacheBudgetChanged(bytes) ==
    /\ {bytes} # {cache.budget, cache.setting}
    /\ LET told == [Now EXCEPT !.cache.setting = bytes]
       IN  \/ jobRunning /\ Becomes(told)
           \/ /\ ~jobRunning
              /\ \E kept \in C!EvictToBudget(C!SetBudget(told.cache, bytes), {}) :
                    Becomes(LoadAll(
                        [Now EXCEPT !.full = FALSE, !.shown = [a \in Assets |-> Nothing],
                                    !.cache = kept], TRUE))

RemoveCacheEntry(key) ==
    /\ ~jobRunning /\ key \in C!KeysOf(cache.rows)
    /\ Becomes([Now EXCEPT
           !.cache = C!RemoveEntries(@, {key}),
           !.shown[key[1]] = IF key[2] = "preview" THEN Nothing ELSE @,
           !.proxies = IF key[2] = "preview" THEN @ ELSE @ \ {key[1]}])

RemoveCacheAsset(a) ==
    /\ ~jobRunning /\ \E key \in C!KeysOf(cache.rows) : key[1] = a
    /\ Becomes([Now EXCEPT !.cache = C!RemoveEntries(@, {k \in Keys : k[1] = a}),
                           !.shown[a] = Nothing, !.proxies = @ \ {a}])

EvictCacheToBudget ==
    /\ ~jobRunning
    /\ \E kept \in C!EvictToBudget(cache, {}) :
          Becomes(LoadAll(
              [Now EXCEPT !.shown = [a \in Assets |-> Nothing], !.cache = kept], FALSE))

ClearMediaCache ==
    /\ ~jobRunning
    /\ Becomes([Now EXCEPT !.cache = C!Clear(@), !.shown = [a \in Assets |-> Nothing],
                           !.full = FALSE, !.proxies = {}])

(***************************************************************************)
(* The event loop and the processes.                                       *)
(***************************************************************************)
\* ~WorkerHostSession cancels and waits: a job that was under way may still
\* write its output, and what was posted is dropped.
DeleteSession(m, h) ==
    {[n EXCEPT !.hosts[h] = Gone,
               !.calls = Part(@, {i \in DOMAIN @ : @[i].host # h})] :
        n \in IF m.hosts[h].phase = "working" THEN {m, Written(m, h)} ELSE {m}}

Handled(m, call) ==
    LET w == m.hosts[call.host]
        ok == call.call = "event" /\ call.result = "succeeded"
    IN  IF call.call = "delete" THEN DeleteSession(m, call.host)
        ELSE IF w.kind = "proxy" THEN FinishProxyJob(m, w.of, ok)
        ELSE IF call.call = "finished" THEN {PreviewFinished(m, w)}
        ELSE PreviewEvent(m, w, IF ok THEN "succeeded" ELSE "failed")

DeliverCall ==
    /\ calls # <<>>
    /\ \E m \in Handled([Now EXCEPT !.calls = Tail(@)], Head(calls)) : Becomes(m)

Ends(h) ==
    /\ calls = <<>> /\ hosts[h].phase = "working"
    /\ \/ \E results \in Answers(Now, h) :
              Becomes(IF results = <<>> THEN Finished(Now, h)
                      ELSE [Answer(Now, h, results) EXCEPT !.hosts[h].phase = "exiting"])
       \/ Becomes(FailToStart(Now, h))

Exits(h) ==
    /\ calls = <<>> /\ hosts[h].phase = "exiting"
    /\ Becomes(Finished(Now, h))

\* A put of the file staged of a that the death of the application cuts short.
CutShort(m, key, a) ==
    LET file == m.staged[key[2]][a]
    IN  IF file = Nothing THEN {}
        ELSE {[m EXCEPT !.cache = half.cache,
                        !.staged[key[2]][a] = IF half.taken THEN Nothing ELSE @] :
                  half \in C!HalfPuts(m.cache, key, file)}

\* The states the handler that comes next can be cut short in.
HalfDone ==
    LET call == Head(calls)
        w == hosts[call.host]
    IN  {Now} \cup
        (IF calls = <<>> \/ call.call # "event" \/ call.result # "succeeded" THEN {}
         ELSE IF w.kind = "preview"
         THEN IF temp = Nothing THEN {} ELSE CutShort(Now, PreviewKey(w.of), temp)
         ELSE IF proxyJob[w.of] = 0 \/ w.of \notin project THEN {}
         ELSE LET first == Adopted(Now, ProxyKey(w.of), staged.proxy[w.of])
              IN  CutShort(Now, ProxyKey(w.of), w.of) \cup first
                      \cup UNION {CutShort(n, MapKey(w.of), w.of) : n \in first})

\* The application dies, perhaps between the steps of a handler, is started
\* again, which opens the cache, and opens the project.  (A death within an
\* eviction the user asked for leaves no more: the start evicts what is left.)
Anew(left) ==
    [left EXCEPT !.generation = @ + 1, !.paused = FALSE,
                 !.jobQueue = <<>>, !.jobRunning = FALSE, !.session = 0, !.temp = Nothing,
                 !.proxyJob = [a \in Proxied |-> 0], !.calls = <<>>,
                 !.hosts = [h \in Hosts |-> Gone]]

ApplicationDies ==
    /\ project # {}
    /\ \E left \in HalfDone : \E kept \in C!Opened(left.cache) :
          Becomes(Reconstruct(Anew([left EXCEPT !.cache = kept])))

JobsInit ==
    /\ project = {} /\ link = [a \in Assets |-> 0] /\ paused = FALSE /\ jobQueue = <<>>
    /\ jobRunning = FALSE /\ generation = 0 /\ session = 0 /\ temp = Nothing /\ full = FALSE
    /\ shown = [a \in Assets |-> Nothing] /\ proxies = {} /\ autoq = <<>>
    /\ proxyJob = [a \in Proxied |-> 0] /\ hosts = [h \in Hosts |-> Gone] /\ calls = <<>>
    /\ cache = [rows |-> <<>>, blobs |-> [k \in Keys |-> Nothing],
                budget |-> Budget, setting |-> Budget, skipped |-> FALSE]
    /\ staged = [preview |-> [a \in Assets |-> Nothing], proxy |-> [a \in Proxied |-> Nothing],
                 map |-> [a \in Proxied |-> Nothing]]
    /\ asks = 0

User ==
    \/ \E assets \in SUBSET Assets \ {{}} : Open(assets)
    \/ \E a \in Assets : Import(a) \/ Relink(a) \/ RemoveCacheAsset(a)
    \/ \E a \in Proxied : AskForProxy(a)
    \/ \E key \in Keys : RemoveCacheEntry(key)
    \/ \E bytes \in Budgets : HandleCacheBudgetChanged(bytes)
    \/ Pause \/ Resume \/ EvictCacheToBudget \/ ClearMediaCache

Loop == DeliverCall \/ \E h \in Hosts : Ends(h) \/ Exits(h)

JobsNext ==
    \/ calls = <<>> /\ asks < MaxAsks /\ asks' = asks + 1 /\ User
    \/ asks < MaxAsks /\ asks' = asks + 1 /\ ApplicationDies
    \/ Loop /\ UNCHANGED asks

\* The event loop goes on, and every worker ends, if need be killed.  This is
\* WF_jobs(Loop /\ UNCHANGED asks) with what enables Loop written out: that
\* the loop is Busy.
Busy == calls # <<>> \/ \E h \in Hosts : hosts[h].phase \in {"working", "exiting"}
JobsFairness == []<>~Busy \/ []<><<UNCHANGED asks>>_jobs

JobsSpec == JobsInit /\ [][JobsNext]_jobs /\ JobsFairness

(***************************************************************************)
(* Properties.                                                             *)
(***************************************************************************)
OwnPreview(c, a) ==
    C!Found(c, PreviewKey(a)) => c.blobs[PreviewKey(a)].of = a
OwnPair(c, a) ==
    C!Found(c, ProxyKey(a)) /\ C!Found(c, MapKey(a))
        => c.blobs[ProxyKey(a)].link = c.blobs[MapKey(a)].link

\* The handlers of a session use members that may have become another job's.
\* Even so no asset gets the preview of another; and a proxy comes to lie
\* beside the map of another source only if the cache does not take one of the
\* two files or the application dies between the two puts (the event handler
\* in pumpCacheJobs, finishProxyJob).
ContentIsOwn ==
    [][/\ \A a \in Assets : OwnPreview(cache, a) => OwnPreview(cache', a)
       /\ \A a \in Proxied : OwnPair(cache, a) /\ ~OwnPair(cache', a) =>
              ApplicationDies \/ staged'.proxy[a] # Nothing \/ staged'.map[a] # Nothing]_jobs

\* The entries whose file the cache takes from a worker in this step.
Stored == {k \in Keys : staged[k[2]][k[1]] # Nothing /\ staged'[k[2]][k[1]] = Nothing}

\* The cache is within its budget, also after a death between the INSERT and the
\* eviction of a put, unless the last eviction could not delete a row: then it may
\* be over it until the next one.  What is evicted to make room has been used less
\* recently than everything that stays but the files just put
\* (CacheStore::Impl::evict_to_budget with the key protected by put).
LeastRecentlyUsed ==
    /\ [](C!WithinBudget(cache) \/ cache.skipped)
    /\ [][(UNCHANGED asks \/ (cache'.budget # cache.budget /\ UNCHANGED generation))
             /\ ~cache'.skipped =>
            \A i, j \in DOMAIN cache.rows :
                /\ i < j
                /\ cache.rows[i].key \in C!KeysOf(cache'.rows) \ Stored
                => cache.rows[j].key \in C!KeysOf(cache'.rows)]_jobs

\* Jobs and calls have the sessions they are of, and what is shown belongs to
\* the project that is open, whatever sessions of an earlier one still deliver
\* (cache_job_generation_, the look-ups by id).
NoStrangers ==
    /\ JobsTypeOK
    /\ \A a \in Assets : shown[a] # Nothing => a \in project
    /\ proxies \subseteq project

\* As long as the cache is not found full and background jobs are not held back
\* for good, the queue of previews is emptied: every way a job can end, and an
\* outcome of an earlier generation too, starts the next one.
EveryPreviewTurn ==
    []~full /\ []<>~paused => []<>(jobQueue = <<>>)
=============================================================================
