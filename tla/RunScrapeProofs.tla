--------------------------- MODULE RunScrapeProofs --------------------------
(***************************************************************************)
(* Proofs about the metrics of a live run: what one answer shows fits      *)
(* together, its journal counters never fall, and no run is hidden.        *)
(***************************************************************************)
EXTENDS RunScrape, LifecycleProofs

\* Where the exporter is.
LoadPCs == {"metrics", "journal", "readiness", "probe"}
Places == {"idle", "discover", "run"} \cup LoadPCs

Ids == Neighbour \cup {Here}
Sample ==
    [metadata : MetaContent \cup NoFile, metrics : MetricsContent \cup NoFile,
     journal : Seq(Entry), conn : [PatchOps -> Proc \cup NoFile]]
Body ==
    [request : Requests \cup {NoRequest}, after : SUBSET Proc, shown : SUBSET Ids,
     skipped : SUBSET Ids, failed : BOOLEAN, sample : Sample]

ScrapeTypeInv ==
    /\ at \in Places
    /\ request \in Requests \cup {NoRequest}
    /\ at # "idle" => request \in Requests
    /\ todo \in Seq(Ids)
    /\ took \in Sample
    /\ body \in Body
    /\ last \in Body

\* The lines of one event in a journal that was read.
CountOf(lines, event) == Cardinality({i \in DOMAIN lines : lines[i].event = event})

\* What GaugesAgree says of the last answer, of any body.
StatusFitsMetrics(status, m) ==
    /\ status \in {"running", "completed", "safety_blocked"}
    /\ status = "completed" => m # "blocked"
    /\ status = "safety_blocked" => m = "blocked"
LinesFitMetrics(lines, m) ==
    /\ CountOf(lines, "paper_heartbeat") = IF m = "placeholder" THEN HeartbeatCount ELSE 0
    /\ CountOf(lines, "paper_completed") + CountOf(lines, "backtest_completed") =
          IF m = "blocked" THEN 0 ELSE 1
LineHasFile(lines, o, file) == CountOf(lines, PatchEntryName(o)) > 0 => file # Absent
SampleFits(s, counted) ==
    /\ StatusFitsMetrics(s.metadata.status, s.metrics)
    /\ counted => LinesFitMetrics(s.journal, s.metrics)
    /\ \A o \in PatchOps : LineHasFile(s.journal, o, s.conn[o])
BodyFits(b) == Here \in b.shown => SampleFits(b.sample, b.request.journal)

\* The queue of a request: no id twice, and none that is shown already.
QueueInv ==
    /\ at # "idle" => body.request = request
    /\ at = "idle" => body = NoBody
    /\ at \in {"idle", "discover"} => todo = <<>> /\ body.shown = {}
    /\ at \in LoadPCs => todo # <<>> /\ Head(todo) = Here
    /\ \A i, j \in DOMAIN todo : todo[i] = todo[j] => i = j
    /\ \A i \in DOMAIN todo : todo[i] \notin body.shown

\* What the exporter has loaded is what the run's files still are, or tells no more.
TookInv ==
    /\ at \in LoadPCs => took.metadata \in MetaContent /\ CopyTrue(took.metadata)
    /\ at \in {"journal", "readiness", "probe"} => Readable(metrics) /\ took.metrics = metrics
    /\ at \in {"readiness", "probe"} =>
          /\ request.journal => LinesFitMetrics(took.journal, metrics)
          /\ \A o \in PatchOps : LineHasFile(took.journal, o, connFile[o])
    /\ at = "probe" => LineHasFile(took.journal, "readiness", took.conn["readiness"])

GaugesInv == ScrapeTypeInv /\ QueueInv /\ TookInv /\ BodyFits(body) /\ BodyFits(last)

\* s begins t.
Begins(s, t) == Len(s) <= Len(t) /\ \A i \in 1..Len(s) : s[i] = t[i]

\* Journals that were read later begin with those that were read earlier.
Counts(b) == Here \in b.shown /\ b.request.journal
CountsNow == at \in {"readiness", "probe"} /\ request.journal
CountersInv ==
    /\ CountsNow => journal # Absent /\ Begins(took.journal, journal)
    /\ Counts(body) => journal # Absent /\ Begins(body.sample.journal, journal)
    /\ Counts(last) =>
          /\ journal # Absent /\ Begins(last.sample.journal, journal)
          /\ CountsNow => Begins(last.sample.journal, took.journal)
          /\ Counts(body) => Begins(last.sample.journal, body.sample.journal)

\* Every neighbour is shown or still in the queue.
NeighboursInv ==
    /\ ~body.failed
    /\ last.failed => last.request.command = "export"
    /\ at \notin {"idle", "discover"} /\ request.command = "serve" =>
          Neighbour \subseteq body.shown \cup ToSet(todo)
    /\ last.request.command = "serve" => Neighbour \subseteq last.shown

\* Commands that take turns leave no torn artifact, and the switch as the last kill
\* command set it.
LastKill(q) == op[q] \in KillOps /\ \A k \in Proc : op[k] \in KillOps => k = q \/ Precedes(k, q)
WholeInv ==
    SerialHistory =>
        /\ \A o \in PatchOps :
              /\ connFile[o] # Garbled
              /\ connFile[o] = Empty => \E p \in Proc : pc[p] = "artifact_flush" /\ op[p] = o
        /\ \A p \in Proc :
              /\ pc[p] = "artifact_flush" => connFile[op[p]] = Empty
              /\ pc[p] = "flush_state" => stateFile = Empty
              /\ LastKill(p) /\ pc[p] \in WrittenPCs =>
                    stateFile.state = NewState(op[p])

\* Nothing has begun since the answer was asked for.
Quiet(b) == {p \in Proc : Started(p)} \subseteq b.after
Ran == \E p \in Proc : op[p] \in {"backtest", "paper"}
QuietInv ==
    /\ \A p \in body.after \cup last.after : Ended(p)
    /\ Quiet(body) =>
          /\ at \in LoadPCs => took.metadata = metadata
          /\ at = "probe" => took.conn["readiness"] = connFile["readiness"]
          /\ Here \in body.shown => body.sample.metadata = metadata /\ body.sample.conn = connFile
          /\ SerialHistory /\ Ran /\ at \notin {"idle", "discover"} =>
                Here \in body.shown \cup ToSet(todo)
    /\ Quiet(last) =>
          /\ Here \in last.shown => last.sample.metadata = metadata /\ last.sample.conn = connFile
          /\ SerialHistory /\ Ran /\ last # NoBody => Here \in last.shown

-----------------------------------------------------------------------------
(* The steps of the exporter, field by field *)

LEMMA SampleTypes ==
    /\ NothingTaken \in Sample /\ NoBody \in Body
    /\ ScrapeTypeInv => Failure \in Body
<1>1. <<>> \in Seq(Entry) /\ Absent \in NoFile
  BY DEF NoFile
<1>2. NothingTaken \in Sample
  BY <1>1 DEF NothingTaken, Sample
<1> QED BY <1>2 DEF NoBody, Body, Failure, ScrapeTypeInv

\* A set in any order is a list of its elements, each of them once.
LEMMA InAnyOrder ==
    ASSUME NEW S, IsFiniteSet(S), NEW s \in SetToSeqs(S)
    PROVE  /\ s \in Seq(S) /\ ToSet(s) = S
           /\ \A i, j \in DOMAIN s : s[i] = s[j] => i = j
<1> DEFINE n == Cardinality(S)
<1>1. n \in Nat /\ IsFiniteSet(1..n) /\ Cardinality(1..n) = n
  BY FS_CardinalityType, FS_Interval
<1>2. s \in [1..n -> S] /\ \A i, j \in 1..n : i # j => s[i] # s[j]
  BY DEF SetToSeqs
<1>3. s \in Injection(1..n, S)
  BY <1>2 DEF Injection, IsInjective
<1>4. s \in Surjection(1..n, S)
  BY <1>1, <1>3, FS_Injection
<1>5. \A x \in S : \E i \in 1..n : s[i] = x
  BY <1>4 DEF Surjection
<1>6. s \in Seq(S)
  BY <1>1, <1>2
<1> QED BY <1>2, <1>5, <1>6 DEF ToSet

\* What is left of a queue whose head is taken off.
LEMMA QueueTail ==
    ASSUME NEW S, NEW s \in Seq(S), s # <<>>
    PROVE  /\ Tail(s) \in Seq(S) /\ Head(s) = s[1] /\ 1 \in DOMAIN s
           /\ \A i \in DOMAIN Tail(s) : i + 1 \in DOMAIN s /\ i + 1 # 1 /\ Tail(s)[i] = s[i + 1]
           /\ ToSet(s) = {Head(s)} \cup ToSet(Tail(s))
<1>1. /\ Tail(s) \in Seq(S) /\ Head(s) = s[1] /\ Len(s) \in Nat /\ Len(s) # 0
      /\ DOMAIN s = 1..Len(s) /\ DOMAIN Tail(s) = 1..(Len(s) - 1)
      /\ \A i \in 1..(Len(s) - 1) : Tail(s)[i] = s[i + 1]
  OBVIOUS
<1>2. /\ 1 \in DOMAIN s
      /\ \A i \in DOMAIN Tail(s) : i + 1 \in DOMAIN s /\ i + 1 # 1 /\ Tail(s)[i] = s[i + 1]
  BY <1>1
<1>3. \A j \in DOMAIN s : j = 1 \/ (j - 1 \in DOMAIN Tail(s) /\ Tail(s)[j - 1] = s[j])
  BY <1>1
<1>4. ASSUME NEW x \in ToSet(s) PROVE x \in {Head(s)} \cup ToSet(Tail(s))
  <2>1. PICK j \in DOMAIN s : x = s[j]
    BY <1>4 DEF ToSet
  <2> QED BY <1>1, <1>3, <2>1 DEF ToSet
<1>5. ASSUME NEW x \in {Head(s)} \cup ToSet(Tail(s)) PROVE x \in ToSet(s)
  <2>1. CASE x = Head(s)
    BY <1>1, <1>2, <2>1 DEF ToSet
  <2>2. CASE x \in ToSet(Tail(s))
    <3>1. PICK i \in DOMAIN Tail(s) : x = Tail(s)[i]
      BY <2>2 DEF ToSet
    <3> QED BY <1>2, <3>1 DEF ToSet
  <2> QED BY <1>5, <2>1, <2>2
<1> QED BY <1>1, <1>2, <1>4, <1>5

\* The run at the head of the queue is over: shown from a sample, or not shown.
RunOver(shown, sample) ==
    /\ todo # <<>> /\ todo' = Tail(todo) /\ at' = "run" /\ took' = NothingTaken
    /\ UNCHANGED <<request, last>>
    /\ body' \in Body
    /\ body'.request = body.request /\ body'.after = body.after /\ body'.failed = body.failed
    /\ body'.shown = body.shown \cup shown /\ body'.sample = sample
AnswerIs(b) ==
    /\ last' = b /\ b \in Body
    /\ at' = "idle" /\ todo' = <<>> /\ took' = NothingTaken /\ body' = NoBody
    /\ UNCHANGED request
Loaded == took' \in Sample /\ UNCHANGED <<request, todo, body, last>>

AtHere == at \in LoadPCs \/ (at = "run" /\ todo # <<>> /\ Head(todo) = Here)
Failed == request.command = "export" /\ AnswerIs(Failure)
Skipped == request.command # "export" /\ RunOver({}, NothingTaken)
Torn ==
    \/ at = "run" /\ (~runDir \/ ~Readable(metadata))
    \/ at = "metrics" /\ ~Readable(metrics)
    \/ at \in PatchOps /\ Malformed(connFile[at])
LoadedMetadata ==
    /\ at = "run" /\ todo # <<>> /\ Head(todo) = Here /\ runDir /\ Readable(metadata)
    /\ Loaded /\ at' = "metrics" /\ took'.metadata = metadata
LoadedMetrics ==
    /\ at = "metrics" /\ Readable(metrics)
    /\ Loaded /\ at' = "journal" /\ took'.metadata = took.metadata /\ took'.metrics = metrics
LoadedJournal ==
    /\ at = "journal"
    /\ Loaded /\ at' = "readiness"
    /\ took'.metadata = took.metadata /\ took'.metrics = took.metrics
    /\ took'.journal = IF request.journal /\ journal # Absent THEN journal ELSE <<>>
LoadedReadiness ==
    /\ at = "readiness" /\ ~Malformed(connFile["readiness"])
    /\ Loaded /\ at' = "probe"
    /\ took'.metadata = took.metadata /\ took'.metrics = took.metrics
    /\ took'.journal = took.journal /\ took'.conn["readiness"] = connFile["readiness"]
ShownFrom(s) ==
    /\ at = "probe" /\ RunOver({Here}, s)
    /\ s.metadata = took.metadata /\ s.metrics = took.metrics /\ s.journal = took.journal
    /\ s.conn \in [PatchOps -> Proc \cup NoFile]
    /\ s.conn["readiness"] = took.conn["readiness"] /\ s.conn["probe"] = connFile["probe"]
Neighbours ==
    at = "run" /\ todo # <<>> /\ Head(todo) \in Neighbour /\ RunOver({Head(todo)}, body.sample)
Responds == at = "run" /\ todo = <<>> /\ AnswerIs(body)
Discovers ==
    /\ at = "discover" /\ at' = "run"
    /\ UNCHANGED <<request, took, body, last>>
    /\ \A i, j \in DOMAIN todo' : todo'[i] = todo'[j] => i = j
    /\ ToSet(todo') = IF request.command = "serve"
                      THEN Neighbour \cup (IF runDir THEN {Here} ELSE {}) ELSE {Here}
Requested ==
    /\ at = "idle" /\ at' = "discover" /\ request' \in Requests
    /\ body' \in Body /\ body'.request = request' /\ body'.after = {p \in Proc : Ended(p)}
    /\ body'.shown = {} /\ body'.failed = FALSE /\ body'.sample = NothingTaken
    /\ UNCHANGED <<todo, took, last>>

ExporterMoves ==
    \/ Requested \/ Discovers \/ Neighbours \/ Responds
    \/ LoadedMetadata \/ LoadedMetrics \/ LoadedJournal \/ LoadedReadiness
    \/ (\E s \in Sample : ShownFrom(s))
    \/ (Torn /\ AtHere /\ (Failed \/ Skipped))

LEMMA RunOverResult ==
    ASSUME ScrapeTypeInv, at # "idle", todo # <<>>,
           NEW shown \in SUBSET Ids, NEW skipped \in SUBSET Ids, NEW sample \in Sample,
           NextRun(shown, skipped, sample)
    PROVE  RunOver(shown, sample) /\ ScrapeTypeInv'
<1>1. body \in Body /\ todo \in Seq(Ids)
  BY DEF ScrapeTypeInv
<1>2. /\ body' \in Body
      /\ body'.request = body.request /\ body'.after = body.after /\ body'.failed = body.failed
      /\ body'.shown = body.shown \cup shown /\ body'.sample = sample
  BY <1>1 DEF NextRun, Body
<1>3. at' = "run" /\ todo' = Tail(todo) /\ took' = NothingTaken /\ UNCHANGED <<request, last>>
  BY DEF NextRun
<1>4. RunOver(shown, sample)
  BY <1>2, <1>3 DEF RunOver
<1>5. ScrapeTypeInv'
  BY <1>1, <1>2, <1>3, QueueTail, SampleTypes DEF ScrapeTypeInv, Places
<1> QED BY <1>4, <1>5

LEMMA AnswerResult ==
    ASSUME ScrapeTypeInv, NEW b \in Body, Answer(b)
    PROVE  AnswerIs(b) /\ ScrapeTypeInv'
<1>1. <<>> \in Seq(Ids)
  OBVIOUS
<1> QED BY <1>1, SampleTypes DEF Answer, AnswerIs, ScrapeTypeInv, Places

LEMMA SkipResult ==
    ASSUME ScrapeTypeInv, at # "idle", todo # <<>>, Skip
    PROVE  (Failed \/ Skipped) /\ ScrapeTypeInv'
<1>1. CASE request.command = "export"
  BY <1>1, AnswerResult, SampleTypes DEF Skip, Failed
<1>2. CASE request.command # "export"
  BY <1>2, RunOverResult, SampleTypes DEF Skip, Skipped, Ids
<1> QED BY <1>1, <1>2

LEMMA RequestedResult ==
    ASSUME ScrapeTypeInv, BeginRequest
    PROVE  Requested /\ ScrapeTypeInv'
<1>1. PICK r \in Requests :
         request' = r /\ body' = [NoBody EXCEPT !.request = r, !.after = {p \in Proc : Ended(p)}]
  BY DEF BeginRequest
<1>2. /\ body' \in Body /\ body'.request = request' /\ body'.after = {p \in Proc : Ended(p)}
      /\ body'.shown = {} /\ body'.failed = FALSE /\ body'.sample = NothingTaken
  BY <1>1, SampleTypes DEF NoBody, Body
<1> QED BY <1>1, <1>2 DEF BeginRequest, Requested, ScrapeTypeInv, Places

LEMMA DiscoversResult ==
    ASSUME ScrapeTypeInv, Discover
    PROVE  Discovers /\ ScrapeTypeInv'
<1> DEFINE S == Neighbour \cup (IF runDir THEN {Here} ELSE {})
<1>1. IsFiniteSet(S) /\ S \subseteq Ids
  <2>1. IsFiniteSet(IF runDir THEN {Here} ELSE {})
    BY FS_EmptySet, FS_Singleton
  <2> QED BY <2>1, RunAssumption, FS_Union DEF Ids
<1>2. CASE request.command = "serve"
  <2>1. todo' \in SetToSeqs(S)
    BY <1>2 DEF Discover
  <2>2. /\ todo' \in Seq(S) /\ ToSet(todo') = S
        /\ \A i, j \in DOMAIN todo' : todo'[i] = todo'[j] => i = j
    BY <1>1, <2>1, InAnyOrder
  <2>3. todo' \in Seq(Ids)
    BY <1>1, <2>2
  <2> QED BY <1>2, <2>2, <2>3 DEF Discover, Discovers, ScrapeTypeInv, Places
<1>3. CASE request.command # "serve"
  <2>1. todo' = <<Here>>
    BY <1>3 DEF Discover
  <2>2. todo' \in Seq(Ids) /\ DOMAIN todo' = {1} /\ todo'[1] = Here
    BY <2>1 DEF Ids
  <2>3. ToSet(todo') = {Here}
    BY <2>2 DEF ToSet
  <2> QED BY <1>3, <2>2, <2>3 DEF Discover, Discovers, ScrapeTypeInv, Places
<1> QED BY <1>2, <1>3

LEMMA LoadedResult ==
    ASSUME ScrapeTypeInv, QueueInv, OpsTypeInv,
           LoadMetadata \/ LoadMetrics \/ LoadJournal \/ (\E o \in PatchOps : LoadArtifact(o))
    PROVE  /\ \/ LoadedMetadata \/ LoadedMetrics \/ LoadedJournal \/ LoadedReadiness
              \/ (\E s \in Sample : ShownFrom(s))
              \/ (Torn /\ AtHere /\ (Failed \/ Skipped))
           /\ ScrapeTypeInv'
<1>0. /\ metadata \in MetaContent \cup NoFile /\ metrics \in MetricsContent \cup NoFile
      /\ journal \in Seq(Entry) \cup {Absent} /\ connFile \in [PatchOps -> Proc \cup NoFile]
      /\ took \in Sample /\ <<>> \in Seq(Entry)
  BY DEF OpsTypeInv, OpsTypeOK, TypeOK, ConnTypeOK, ScrapeTypeInv
<1>1. CASE LoadMetadata
  <2>1. CASE ~runDir \/ ~Readable(metadata)
    BY <1>1, <2>1, SkipResult DEF LoadMetadata, Torn, AtHere
  <2>2. CASE runDir /\ Readable(metadata)
    <3>1. took' \in Sample /\ took'.metadata = metadata
      BY <1>0, <1>1, <2>2 DEF LoadMetadata, Sample
    <3> QED BY <1>1, <2>2, <3>1 DEF LoadMetadata, LoadedMetadata, Loaded, ScrapeTypeInv, Places, LoadPCs
  <2> QED BY <2>1, <2>2
<1>2. CASE LoadMetrics
  <2>1. at = "metrics" /\ todo # <<>>
    BY <1>2 DEF LoadMetrics, QueueInv, LoadPCs
  <2>2. CASE ~Readable(metrics)
    BY <1>2, <2>1, <2>2, SkipResult DEF LoadMetrics, Torn, AtHere, LoadPCs
  <2>3. CASE Readable(metrics)
    <3>1. took' \in Sample /\ took'.metadata = took.metadata /\ took'.metrics = metrics
      BY <1>0, <1>2, <2>3 DEF LoadMetrics, Sample
    <3> QED BY <1>2, <2>3, <3>1 DEF LoadMetrics, LoadedMetrics, Loaded, ScrapeTypeInv, Places, LoadPCs
  <2> QED BY <2>2, <2>3
<1>3. CASE LoadJournal
  <2>1. (IF request.journal /\ journal # Absent THEN journal ELSE <<>>) \in Seq(Entry)
    BY <1>0
  <2>2. /\ took' \in Sample /\ took'.metadata = took.metadata /\ took'.metrics = took.metrics
        /\ took'.journal = IF request.journal /\ journal # Absent THEN journal ELSE <<>>
    BY <1>0, <1>3, <2>1 DEF LoadJournal, Sample
  <2> QED BY <1>3, <2>2 DEF LoadJournal, LoadedJournal, Loaded, ScrapeTypeInv, Places, LoadPCs
<1>4. ASSUME NEW o \in PatchOps, LoadArtifact(o)
      PROVE  /\ \/ LoadedReadiness \/ (\E s \in Sample : ShownFrom(s))
                \/ (Torn /\ AtHere /\ (Failed \/ Skipped))
             /\ ScrapeTypeInv'
  <2>1. at = o /\ at \in LoadPCs /\ at # "idle" /\ todo # <<>> /\ Head(todo) = Here
    BY <1>4 DEF LoadArtifact, QueueInv, LoadPCs, PatchOps
  <2>2. CASE Malformed(connFile[o])
    BY <1>4, <2>1, <2>2, SkipResult DEF LoadArtifact, Torn, AtHere
  <2>3. CASE ~Malformed(connFile[o])
    <3> DEFINE s == [took EXCEPT !.conn[o] = connFile[o]]
    <3>1. /\ s \in Sample /\ s.metadata = took.metadata /\ s.metrics = took.metrics
          /\ s.journal = took.journal /\ s.conn = [took.conn EXCEPT ![o] = connFile[o]]
      BY <1>0 DEF Sample
    <3>2. /\ s.conn[o] = connFile[o] /\ s.conn \in [PatchOps -> Proc \cup NoFile]
          /\ \A i \in PatchOps : i # o => s.conn[i] = took.conn[i]
      BY <1>0, <3>1 DEF Sample
    <3>3. CASE o = "probe"
      <4>1. NextRun({Here}, {}, s)
        BY <1>4, <2>3, <3>3 DEF LoadArtifact
      <4>2. RunOver({Here}, s) /\ ScrapeTypeInv'
        <5> HIDE DEF s
        <5> QED BY <2>1, <3>1, <4>1, RunOverResult DEF Ids
      <4> HIDE DEF s
      <4>3. s.conn["readiness"] = took.conn["readiness"] /\ s.conn["probe"] = connFile["probe"]
        BY <3>2, <3>3 DEF PatchOps
      <4>4. ShownFrom(s)
        BY <2>1, <3>1, <3>2, <3>3, <4>2, <4>3 DEF ShownFrom
      <4> QED BY <3>1, <4>2, <4>4
    <3>4. CASE o # "probe"
      <4>1. took' = s /\ at' = "probe" /\ UNCHANGED <<request, todo, body, last>>
        BY <1>4, <2>3, <3>4 DEF LoadArtifact
      <4> HIDE DEF s
      <4>2. o = "readiness"
        BY <3>4 DEF PatchOps
      <4>3. LoadedReadiness
        BY <2>1, <2>3, <3>1, <3>2, <4>1, <4>2 DEF LoadedReadiness, Loaded
      <4> QED BY <2>1, <3>1, <4>1, <4>3 DEF ScrapeTypeInv, Places, LoadPCs
    <3> QED BY <3>3, <3>4
  <2> QED BY <2>2, <2>3
<1> QED BY <1>1, <1>2, <1>3, <1>4

LEMMA ExporterCases ==
    ASSUME ScrapeTypeInv, QueueInv, OpsTypeInv, BeginRequest \/ ScrapeStep
    PROVE  ExporterMoves /\ ScrapeTypeInv'
<1>1. CASE BeginRequest \/ Discover
  BY <1>1, RequestedResult, DiscoversResult DEF ExporterMoves
<1>2. CASE RenderNeighbour
  <2>1. body.sample \in Sample /\ {Head(todo)} \in SUBSET Ids /\ {} \in SUBSET Ids
    BY <1>2 DEF RenderNeighbour, Ids, ScrapeTypeInv, Body
  <2> QED BY <1>2, <2>1, RunOverResult DEF RenderNeighbour, Neighbours, ExporterMoves
<1>3. CASE Respond
  BY <1>3, AnswerResult DEF Respond, Responds, ScrapeTypeInv, ExporterMoves
<1>4. CASE LoadMetadata \/ LoadMetrics \/ LoadJournal \/ (\E o \in PatchOps : LoadArtifact(o))
  BY <1>4, LoadedResult DEF ExporterMoves
<1> QED BY <1>1, <1>2, <1>3, <1>4 DEF ScrapeStep

LEMMA ExporterQueue ==
    ASSUME ScrapeTypeInv, QueueInv, ExporterMoves
    PROVE  QueueInv'
<1>0. todo \in Seq(Ids) /\ body \in Body
  BY DEF ScrapeTypeInv
<1>1. ASSUME NEW shown \in SUBSET Ids, NEW sample, RunOver(shown, sample), shown \subseteq {Head(todo)},
             at # "idle"
      PROVE  QueueInv'
  <2>1. /\ todo # <<>> /\ todo' = Tail(todo) /\ at' = "run" /\ request' = request
        /\ body'.request = request /\ body'.shown \subseteq body.shown \cup {todo[1]}
        /\ 1 \in DOMAIN todo
        /\ \A i \in DOMAIN todo' : i + 1 \in DOMAIN todo /\ i + 1 # 1 /\ todo'[i] = todo[i + 1]
    BY <1>0, <1>1, QueueTail DEF RunOver, QueueInv
  <2>2. \A i \in DOMAIN todo' : i \in Nat
    BY <1>0, <2>1
  <2>3. ASSUME NEW i \in DOMAIN todo', NEW j \in DOMAIN todo', todo'[i] = todo'[j] PROVE i = j
    <3>1. i + 1 = j + 1
      BY <2>1, <2>3 DEF QueueInv
    <3> QED BY <2>2, <3>1
  <2>4. \A i \in DOMAIN todo' : todo'[i] \notin body'.shown
    BY <2>1 DEF QueueInv
  <2> QED BY <2>1, <2>3, <2>4 DEF QueueInv, LoadPCs
<1>2. CASE Requested \/ Discovers \/ Responds
  <2>1. NoBody.shown = {}
    BY DEF NoBody
  <2> QED BY <1>2, <2>1 DEF Requested, Discovers, Responds, AnswerIs, QueueInv, LoadPCs
<1>3. CASE LoadedMetadata \/ LoadedMetrics \/ LoadedJournal \/ LoadedReadiness
  BY <1>3 DEF LoadedMetadata, LoadedMetrics, LoadedJournal, LoadedReadiness, Loaded, QueueInv, LoadPCs
<1>4. CASE Neighbours \/ \E s \in Sample : ShownFrom(s)
  <2>1. Here \in Ids /\ (Neighbours => {Head(todo)} \in SUBSET Ids)
    BY DEF Ids, Neighbours
  <2>2. CASE Neighbours
    BY <1>1, <2>1, <2>2 DEF Neighbours
  <2>3. CASE \E s \in Sample : ShownFrom(s)
    <3>1. PICK s \in Sample : ShownFrom(s)
      BY <2>3
    <3>2. Head(todo) = Here
      BY <3>1 DEF ShownFrom, QueueInv, LoadPCs
    <3> QED BY <1>1, <2>1, <3>1, <3>2 DEF ShownFrom
  <2> QED BY <1>4, <2>2, <2>3
<1>5. CASE AtHere /\ (Failed \/ Skipped)
  <2>1. CASE Failed
    <3>1. NoBody.shown = {}
      BY DEF NoBody
    <3> QED BY <2>1, <3>1 DEF Failed, AnswerIs, QueueInv, LoadPCs
  <2>2. CASE Skipped
    <3>1. at # "idle"
      BY <1>5 DEF AtHere, LoadPCs
    <3> QED BY <1>1, <2>2, <3>1 DEF Skipped
  <2> QED BY <1>5, <2>1, <2>2
<1> QED BY <1>2, <1>3, <1>4, <1>5 DEF ExporterMoves

\* The run at the head of the queue is not shown yet.
LEMMA HereIsNext ==
    ASSUME ScrapeTypeInv, QueueInv, AtHere
    PROVE  Here \notin body.shown /\ at # "idle" /\ body.request = request
<1>1. todo \in Seq(Ids) /\ todo # <<>> /\ Head(todo) = Here
  BY DEF ScrapeTypeInv, QueueInv, AtHere
<1>2. 1 \in DOMAIN todo /\ todo[1] = Here
  BY <1>1, QueueTail
<1> QED BY <1>2 DEF QueueInv, AtHere, LoadPCs

-----------------------------------------------------------------------------
(* The gauges of one answer *)

\* Who reads the journal when metrics.json is there counts what metrics.json reports.
LEMMA JournalFits ==
    ASSUME ReaderInv, Readable(metrics)
    PROVE  journal # Absent /\ LinesFitMetrics(journal, metrics)
<1>1. PICK r \in Proc : Execution(r)
  BY DEF ReaderInv, WriterInv, MetricsTold
<1>2. journal # Absent
  BY <1>1 DEF Execution, JournalTells, Entries
<1>3. \A event \in RunEntries : CountOf(journal, event) = EventCount(event)
  <2>1. \A event \in RunEntries :
           {i \in DOMAIN journal : journal[i].event = event} = EventLines(event)
    BY <1>2 DEF EventLines, RunLines
  <2> QED BY <2>1 DEF CountOf, EventCount
<1>4. metrics \in {"smoke", "placeholder", "blocked"}
  BY DEF ReaderInv, RunInv, OpsTypeInv, OpsTypeOK, TypeOK, Readable, MetricsContent
<1>5. /\ CountOf(journal, "paper_heartbeat") = IF metrics = "placeholder" THEN HeartbeatCount ELSE 0
      /\ CountOf(journal, "paper_completed") = IF metrics = "placeholder" THEN 1 ELSE 0
      /\ CountOf(journal, "backtest_completed") = IF metrics = "smoke" THEN 1 ELSE 0
  BY <1>1, <1>3 DEF Execution, JournalTells, RunEntries
<1>6. CountOf(journal, "paper_completed") + CountOf(journal, "backtest_completed") =
         IF metrics = "blocked" THEN 0 ELSE 1
  BY <1>4, <1>5
<1> QED BY <1>2, <1>5, <1>6 DEF LinesFitMetrics

\* A connectivity line that is counted has its artifact by then.
LEMMA LinesHaveFiles ==
    ASSUME ReaderInv, NEW o \in PatchOps
    PROVE  /\ journal # Absent => LineHasFile(journal, o, connFile[o])
           /\ LineHasFile(<<>>, o, connFile[o])
<1>1. ASSUME NEW lines, CountOf(lines, PatchEntryName(o)) > 0
      PROVE  \E i \in DOMAIN lines : lines[i].event = PatchEntryName(o)
  <2>1. {i \in DOMAIN lines : lines[i].event = PatchEntryName(o)} # {}
    BY <1>1, FS_EmptySet DEF CountOf
  <2> QED BY <2>1
<1>2. ASSUME journal # Absent, CountOf(journal, PatchEntryName(o)) > 0
      PROVE  connFile[o] # Absent
  <2>1. PICK i \in DOMAIN journal : journal[i].event = PatchEntryName(o)
    BY <1>1, <1>2
  <2>2. Logged(PatchEntryName(o))
    BY <1>2, <2>1 DEF Logged, Entries, ToSet
  <2> QED BY <2>2 DEF ReaderInv, BackedInv, SectionsBacked
<1>3. DOMAIN <<>> = {}
  OBVIOUS
<1> QED BY <1>1, <1>2, <1>3 DEF LineHasFile

\* What is loaded stays true when a command moves.
LEMMA TookStays ==
    ASSUME ReaderInv, GaugesInv, NEW p \in Proc, Moves(p), UNCHANGED scrapeVars
    PROVE  GaugesInv'
<1>0. /\ RunInv /\ WriterInv /\ OpsTypeInv /\ TookInv
      /\ at' = at /\ request' = request /\ todo' = todo /\ took' = took /\ body' = body /\ last' = last
  BY DEF ReaderInv, RunInv, GaugesInv, scrapeVars
<1>1. ScrapeTypeInv' /\ QueueInv' /\ BodyFits(body)' /\ BodyFits(last)'
  BY <1>0 DEF GaugesInv, ScrapeTypeInv, QueueInv, BodyFits, SampleFits, StatusFitsMetrics,
     LinesFitMetrics, LineHasFile, CountOf
<1>2. at \in LoadPCs => took.metadata \in MetaContent /\ CopyTrue(took.metadata)'
  <2> SUFFICES ASSUME at \in LoadPCs
               PROVE  took.metadata \in MetaContent /\ CopyTrue(took.metadata)'
    OBVIOUS
  <2>1. PICK m : m = took.metadata
    OBVIOUS
  <2>2. m \in MetaContent /\ CopyTrue(m)
    BY <1>0, <2>1 DEF TookInv
  <2>3. CopyTrue(m)'
    BY <1>0, <2>2, CopyTrueStays
  <2> QED BY <1>0, <2>1, <2>2, <2>3 DEF CopyTrue
<1>3. at \in {"journal", "readiness", "probe"} =>
         Readable(metrics) /\ metrics' = metrics /\ took.metrics = metrics
  BY <1>0, MetricsStay DEF TookInv
<1>4. \A o \in PatchOps : connFile[o] # Absent => connFile'[o] # Absent
  BY <1>0, FilesStay
<1>5. TookInv'
  <2>1. ASSUME at \in {"readiness", "probe"}
        PROVE  /\ request.journal => LinesFitMetrics(took.journal, metrics')
               /\ \A o \in PatchOps : LineHasFile(took.journal, o, connFile'[o])
    BY <1>0, <1>3, <1>4, <2>1 DEF TookInv, LineHasFile
  <2> QED BY <1>0, <1>2, <1>3, <2>1 DEF TookInv, CopyTrue, Readable
<1> QED BY <1>1, <1>5 DEF GaugesInv

\* So is what the exporter loads next.
LEMMA ExporterTook ==
    ASSUME ReaderInv, GaugesInv, ExporterMoves, UNCHANGED vars
    PROVE  TookInv'
<1>0. /\ TookInv /\ CopiesTrue /\ metadata \in MetaContent \cup NoFile
      /\ metadata' = metadata /\ metrics' = metrics /\ journal' = journal /\ connFile' = connFile
      /\ runDir' = runDir /\ pc' = pc /\ op' = op /\ held' = held /\ seen' = seen
  BY DEF GaugesInv, ReaderInv, WriterInv, RunInv, OpsTypeInv, OpsTypeOK, TypeOK, vars, workspace,
     files, procs, connVars
<1>1. \A m : CopyTrue(m)' <=> CopyTrue(m)
  BY <1>0 DEF CopyTrue, Blocked
<1>2. CASE at' \notin LoadPCs
  BY <1>2 DEF TookInv, LoadPCs
<1>3. CASE LoadedMetadata
  <2>1. at' = "metrics" /\ took'.metadata = metadata /\ metadata \in MetaContent /\ CopyTrue(metadata)
    BY <1>0, <1>3 DEF LoadedMetadata, CopiesTrue, Readable
  <2> QED BY <1>0, <1>1, <2>1 DEF TookInv, CopyTrue, Blocked
<1>4. CASE LoadedMetrics
  <2>1. /\ at' = "journal" /\ took'.metadata = took.metadata /\ took'.metrics = metrics
        /\ took.metadata \in MetaContent /\ CopyTrue(took.metadata) /\ Readable(metrics)
    BY <1>0, <1>4 DEF LoadedMetrics, TookInv, LoadPCs
  <2> QED BY <1>0, <2>1 DEF TookInv, CopyTrue, Blocked, Readable
<1>5. CASE LoadedJournal
  <2>1. /\ at' = "readiness" /\ took'.metadata = took.metadata /\ took'.metrics = took.metrics
        /\ took.metadata \in MetaContent /\ CopyTrue(took.metadata)
        /\ Readable(metrics) /\ took.metrics = metrics /\ request' = request
        /\ took'.journal = IF request.journal /\ journal # Absent THEN journal ELSE <<>>
    BY <1>0, <1>5 DEF LoadedJournal, Loaded, TookInv, LoadPCs
  <2>2. request.journal => LinesFitMetrics(took'.journal, metrics)
    BY <2>1, JournalFits
  <2>3. \A o \in PatchOps : LineHasFile(took'.journal, o, connFile[o])
    BY <2>1, LinesHaveFiles
  <2>4. CopyTrue(took.metadata)' /\ Readable(metrics)'
    BY <1>0, <2>1 DEF CopyTrue, Blocked, Readable
  <2> QED BY <1>0, <2>1, <2>2, <2>3, <2>4 DEF TookInv, CopyTrue, Blocked
<1>6. CASE LoadedReadiness
  <2>1. /\ at' = "probe" /\ took'.metadata = took.metadata /\ took'.metrics = took.metrics
        /\ took.metadata \in MetaContent /\ CopyTrue(took.metadata)
        /\ Readable(metrics) /\ took.metrics = metrics /\ request' = request
        /\ took'.journal = took.journal /\ took'.conn["readiness"] = connFile["readiness"]
        /\ request.journal => LinesFitMetrics(took.journal, metrics)
        /\ \A o \in PatchOps : LineHasFile(took.journal, o, connFile[o])
    BY <1>0, <1>6 DEF LoadedReadiness, Loaded, TookInv, LoadPCs
  <2>2. LineHasFile(took'.journal, "readiness", took'.conn["readiness"])
    BY <2>1 DEF PatchOps
  <2> QED BY <1>0, <2>1, <2>2 DEF TookInv, CopyTrue, Blocked, Readable
<1>7. CASE \/ Requested \/ Discovers \/ Neighbours \/ Responds \/ (\E s \in Sample : ShownFrom(s))
           \/ Failed \/ Skipped
  <2>1. at' \in {"idle", "discover", "run"}
    BY <1>7 DEF Requested, Discovers, Neighbours, Responds, ShownFrom, Failed, Skipped, RunOver, AnswerIs
  <2> QED BY <1>2, <2>1 DEF LoadPCs
<1> QED BY <1>3, <1>4, <1>5, <1>6, <1>7 DEF ExporterMoves

\* A run is rendered from what fits together.
LEMMA ShownFits ==
    ASSUME ReaderInv, GaugesInv, NEW s \in Sample, ShownFrom(s)
    PROVE  SampleFits(s, request.journal)
<1>1. /\ s.metadata = took.metadata /\ s.metrics = metrics /\ s.journal = took.journal
      /\ took.metadata \in MetaContent /\ CopyTrue(took.metadata) /\ Readable(metrics)
      /\ request.journal => LinesFitMetrics(took.journal, metrics)
      /\ \A o \in PatchOps : LineHasFile(took.journal, o, connFile[o])
      /\ LineHasFile(took.journal, "readiness", took.conn["readiness"])
      /\ s.conn["readiness"] = took.conn["readiness"] /\ s.conn["probe"] = connFile["probe"]
  BY DEF ShownFrom, GaugesInv, TookInv, LoadPCs
<1>2. metrics \in MetricsContent /\ metrics \notin {Absent, Empty}
  BY <1>1 DEF ReaderInv, RunInv, OpsTypeInv, OpsTypeOK, TypeOK, Readable, NoFile
<1>3. took.metadata.status \in RunStatuses
  BY <1>1 DEF MetaContent
<1>4. StatusFitsMetrics(s.metadata.status, s.metrics)
  BY <1>1, <1>2, <1>3 DEF StatusFitsMetrics, CopyTrue, RunStatuses
<1>5. \A o \in PatchOps : LineHasFile(s.journal, o, s.conn[o])
  BY <1>1 DEF PatchOps
<1> QED BY <1>1, <1>4, <1>5 DEF SampleFits

LEMMA ExporterFits ==
    ASSUME ReaderInv, GaugesInv, ExporterMoves
    PROVE  BodyFits(body)' /\ BodyFits(last)'
<1>0. ScrapeTypeInv /\ QueueInv /\ BodyFits(body) /\ BodyFits(last)
      /\ NoBody.shown = {} /\ Failure.shown = {}
  BY DEF GaugesInv, NoBody, Failure, ScrapeTypeInv, Body
<1>1. CASE Requested \/ Discovers
  BY <1>0, <1>1 DEF Requested, Discovers, BodyFits
<1>2. CASE Neighbours
  <2>1. /\ body'.shown = body.shown \cup {Head(todo)} /\ body'.sample = body.sample
        /\ body'.request = body.request /\ last' = last /\ Head(todo) # Here
    BY <1>2, RunAssumption DEF Neighbours, RunOver
  <2> QED BY <1>0, <2>1 DEF BodyFits
<1>3. CASE Responds
  BY <1>0, <1>3 DEF Responds, AnswerIs, BodyFits
<1>4. CASE LoadedMetadata \/ LoadedMetrics \/ LoadedJournal \/ LoadedReadiness
  BY <1>0, <1>4 DEF LoadedMetadata, LoadedMetrics, LoadedJournal, LoadedReadiness, Loaded, BodyFits
<1>5. ASSUME NEW s \in Sample, ShownFrom(s)
      PROVE  BodyFits(body)' /\ BodyFits(last)'
  <2>1. /\ body'.sample = s /\ body'.request = body.request /\ body.request = request
        /\ last' = last
    BY <1>0, <1>5 DEF ShownFrom, RunOver, QueueInv
  <2> QED BY <1>0, <1>5, <2>1, ShownFits DEF BodyFits
<1>6. CASE AtHere /\ (Failed \/ Skipped)
  <2>1. Here \notin body.shown
    BY <1>0, <1>6, HereIsNext
  <2>2. CASE Failed
    BY <1>0, <2>2 DEF Failed, AnswerIs, BodyFits
  <2>3. CASE Skipped
    BY <1>0, <2>1, <2>3 DEF Skipped, RunOver, BodyFits
  <2> QED BY <1>6, <2>2, <2>3
<1> QED BY <1>1, <1>2, <1>3, <1>4, <1>5, <1>6 DEF ExporterMoves

LEMMA GaugesInvInit == Init /\ ScrapeInit => ReaderInv /\ GaugesInv
<1> SUFFICES ASSUME Init, ScrapeInit PROVE GaugesInv
  BY ReaderInvInit
<1>1. /\ at = "idle" /\ request = NoRequest /\ todo = <<>> /\ took = NothingTaken
      /\ body = NoBody /\ last = NoBody /\ NoBody.shown = {} /\ <<>> \in Seq(Ids)
      /\ DOMAIN <<>> = {}
  BY DEF ScrapeInit, NoBody
<1>2. ScrapeTypeInv
  BY <1>1, SampleTypes DEF ScrapeTypeInv, Places
<1> QED BY <1>1, <1>2 DEF GaugesInv, QueueInv, TookInv, BodyFits, LoadPCs

\* What a step of ScrapeNext can be.
LEMMA ScrapeCases ==
    ASSUME [ScrapeNext]_allVars
    PROVE  \/ \E p \in Proc : Moves(p) /\ UNCHANGED scrapeVars
           \/ (BeginRequest \/ ScrapeStep) /\ UNCHANGED vars
           \/ UNCHANGED vars /\ UNCHANGED scrapeVars
<1>1. CASE Next /\ UNCHANGED scrapeVars
  BY <1>1, NextCases DEF Moves
<1>2. CASE UNCHANGED allVars
  BY <1>2 DEF allVars
<1> QED BY <1>1, <1>2 DEF ScrapeNext

LEMMA GaugesInvNext ==
    ReaderInv /\ GaugesInv /\ [ScrapeNext]_allVars => ReaderInv' /\ GaugesInv'
<1> SUFFICES ASSUME ReaderInv, GaugesInv, [ScrapeNext]_allVars
             PROVE  ReaderInv' /\ GaugesInv'
  OBVIOUS
<1>1. ReaderInv'
  BY ReaderInvNext DEF ScrapeNext, allVars
<1>2. CASE \E p \in Proc : Moves(p) /\ UNCHANGED scrapeVars
  BY <1>1, <1>2, TookStays
<1>3. CASE (BeginRequest \/ ScrapeStep) /\ UNCHANGED vars
  <2>1. OpsTypeInv /\ ScrapeTypeInv /\ QueueInv
    BY DEF ReaderInv, RunInv, GaugesInv
  <2>2. ExporterMoves /\ ScrapeTypeInv'
    BY <1>3, <2>1, ExporterCases
  <2> QED BY <1>1, <1>3, <2>1, <2>2, ExporterQueue, ExporterTook, ExporterFits DEF GaugesInv
<1>4. CASE UNCHANGED vars /\ UNCHANGED scrapeVars
  <2>1. /\ at' = at /\ request' = request /\ todo' = todo /\ took' = took /\ body' = body
        /\ last' = last /\ metrics' = metrics /\ connFile' = connFile
    BY <1>4 DEF scrapeVars, vars, workspace, files, procs, connVars
  <2>2. ScrapeTypeInv' /\ QueueInv' /\ BodyFits(body)' /\ BodyFits(last)'
    BY <2>1 DEF GaugesInv, ScrapeTypeInv, QueueInv, BodyFits, SampleFits, StatusFitsMetrics,
       LinesFitMetrics, LineHasFile, CountOf
  <2>3. CopyTrue(took.metadata)' <=> CopyTrue(took.metadata)
    BY <1>4, <2>1 DEF vars, workspace, files, procs, CopyTrue, Blocked
  <2>4. TookInv'
    BY <2>1, <2>3 DEF GaugesInv, TookInv, LinesFitMetrics, LineHasFile, CountOf, Readable, CopyTrue
  <2> QED BY <1>1, <2>2, <2>4 DEF GaugesInv
<1> QED BY <1>2, <1>3, <1>4, ScrapeCases

LEMMA GaugesInvAlways == ScrapeSpec => [](ReaderInv /\ GaugesInv)
  BY GaugesInvInit, GaugesInvNext, PTL DEF ScrapeSpec

\* The gauges of one answer fit together although every file was read at another moment:
\* a run is shown only when its execution is over, metrics.json reports the heartbeats
\* that the journal counts, and no connectivity line is counted without its artifact; for
\* any number of commands, runs and answers.
THEOREM GaugesAlwaysAgree == ScrapeSpec => []GaugesAgree
<1>1. GaugesInv => GaugesAgree
  BY DEF GaugesInv, BodyFits, SampleFits, StatusFitsMetrics, LinesFitMetrics, LineHasFile, CountOf,
     GaugesAgree, Shown, StatusLabel, EventTotal, HeartbeatTotal, CountedLinesHaveArtifacts
<1> QED BY <1>1, GaugesInvAlways, PTL

-----------------------------------------------------------------------------
(* The counters from one answer to the next *)

LEMMA BeginsFacts ==
    ASSUME NEW s \in Seq(Entry), NEW t \in Seq(Entry)
    PROVE  /\ Begins(t, t)
           /\ Begins(s, t) => IsPrefix(s, t)
           /\ Begins(s, t) => \A e \in Entry : Begins(s, Append(t, e))
<1>1. Begins(t, t)
  BY DEF Begins
<1>2. ASSUME Begins(s, t) PROVE IsPrefix(s, t)
  <2>1. SubSeq(s, 1, Len(s)) = SubSeq(t, 1, Len(s))
    BY <1>2 DEF Begins
  <2> QED BY <1>2, <2>1 DEF Begins, IsPrefix
<1>3. ASSUME Begins(s, t), NEW e \in Entry PROVE Begins(s, Append(t, e))
  <2>1. PICK u : u = Append(t, e)
    OBVIOUS
  <2>2. u \in Seq(Entry) /\ Len(u) = Len(t) + 1 /\ \A i \in 1..Len(t) : u[i] = t[i]
    BY <2>1
  <2>3. Len(s) <= Len(u) /\ \A i \in 1..Len(s) : s[i] = u[i]
    BY <1>3, <2>2 DEF Begins
  <2> QED BY <2>1, <2>3 DEF Begins
<1> QED BY <1>1, <1>2, <1>3

\* Once it exists the journal is only appended to.
LEMMA JournalGrows ==
    ASSUME OpsTypeInv, NEW p \in Proc, Moves(p), journal # Absent
    PROVE  journal' # Absent /\ \A s \in Seq(Entry) : Begins(s, journal) => Begins(s, journal')
<1>1. journal \in Seq(Entry)
  BY DEF OpsTypeInv, OpsTypeOK, TypeOK
<1>2. CASE journal' = journal
  BY <1>2
<1>3. CASE \E event \in RunEntries \cup KillEntries \cup PatchEntries :
              journal' = Append(journal, Line(p, event))
  <2>1. PICK e \in Entry : journal' = Append(journal, e)
    BY <1>3, EntryType DEF Line
  <2>2. journal' \in Seq(Entry)
    BY <1>1, <2>1
  <2> QED BY <1>1, <2>1, <2>2, BeginsFacts, JournalExists
<1> QED BY <1>2, <1>3, StepJournal

LEMMA CountersStay ==
    ASSUME OpsTypeInv, GaugesInv, CountersInv, NEW p \in Proc, Moves(p), UNCHANGED scrapeVars
    PROVE  CountersInv'
<1>1. /\ at' = at /\ request' = request /\ took' = took /\ body' = body /\ last' = last
      /\ took.journal \in Seq(Entry) /\ body.sample.journal \in Seq(Entry)
      /\ last.sample.journal \in Seq(Entry)
  BY DEF GaugesInv, ScrapeTypeInv, Sample, Body, scrapeVars
<1>2. journal # Absent =>
         journal' # Absent /\ \A s \in Seq(Entry) : Begins(s, journal) => Begins(s, journal')
  BY JournalGrows
<1>3. (CountsNow' <=> CountsNow) /\ (Counts(body)' <=> Counts(body)) /\ (Counts(last)' <=> Counts(last))
  BY <1>1 DEF CountsNow, Counts
<1>4. /\ CountsNow => journal' # Absent /\ Begins(took'.journal, journal')
      /\ Counts(body) => journal' # Absent /\ Begins(body'.sample.journal, journal')
      /\ Counts(last) => journal' # Absent /\ Begins(last'.sample.journal, journal')
  BY <1>1, <1>2 DEF CountersInv
<1>5. Counts(last) => /\ CountsNow => Begins(last'.sample.journal, took'.journal)
                      /\ Counts(body) => Begins(last'.sample.journal, body'.sample.journal)
  BY <1>1 DEF CountersInv
<1> QED BY <1>3, <1>4, <1>5 DEF CountersInv, Begins

\* The exporter reads the journal as it is, and keeps what it read.
LEMMA ExporterCounts ==
    ASSUME ReaderInv, GaugesInv, CountersInv, ExporterMoves, UNCHANGED vars
    PROVE  CountersInv' /\ (Counts(last) /\ Counts(last)' =>
                              Begins(last.sample.journal, last'.sample.journal))
<1>0. /\ journal' = journal /\ ScrapeTypeInv /\ QueueInv
      /\ NoBody.shown = {} /\ Failure.shown = {}
      /\ \A s \in Seq(Entry) : Begins(s, s)
      /\ journal \in Seq(Entry) \cup {Absent}
      /\ last.sample.journal \in Seq(Entry)
  BY BeginsFacts DEF vars, workspace, files, GaugesInv, NoBody, Failure, ScrapeTypeInv, Body, Sample,
     ReaderInv, RunInv, OpsTypeInv, OpsTypeOK, TypeOK
<1> DEFINE Kept == last' = last /\ (Counts(body)' => Counts(body) /\ body'.sample = body.sample)
<1>1. ASSUME Kept, CountsNow' => CountsNow /\ took'.journal = took.journal
      PROVE  CountersInv' /\ (Counts(last) /\ Counts(last)' =>
                                Begins(last.sample.journal, last'.sample.journal))
  <2>1. Counts(last)' <=> Counts(last)
    BY <1>1 DEF Counts
  <2> QED BY <1>0, <1>1, <2>1 DEF CountersInv, Begins
<1>2. CASE Requested \/ Discovers \/ Neighbours \/ LoadedMetadata \/ LoadedMetrics \/ LoadedReadiness
  <2>1. CASE Requested \/ Discovers
    <3>1. Kept /\ ~CountsNow'
      BY <2>1 DEF Requested, Discovers, Counts, CountsNow
    <3> QED BY <1>1, <3>1
  <2>2. CASE Neighbours
    <3>1. /\ body'.shown = body.shown \cup {Head(todo)} /\ body'.sample = body.sample
          /\ body'.request = body.request /\ last' = last /\ Head(todo) # Here /\ at' = "run"
      BY <2>2, RunAssumption DEF Neighbours, RunOver
    <3>2. Kept /\ ~CountsNow'
      BY <3>1 DEF Counts, CountsNow
    <3> QED BY <1>1, <3>2
  <2>3. CASE LoadedMetadata \/ LoadedMetrics \/ LoadedReadiness
    <3>1. Kept /\ (CountsNow' => CountsNow /\ took'.journal = took.journal)
      BY <2>3 DEF LoadedMetadata, LoadedMetrics, LoadedReadiness, Loaded, Counts, CountsNow
    <3> QED BY <1>1, <3>1
  <2> QED BY <1>2, <2>1, <2>2, <2>3
<1>3. CASE LoadedJournal
  <2>1. /\ last' = last /\ body' = body /\ request' = request /\ Readable(metrics)
        /\ took'.journal = IF request.journal /\ journal # Absent THEN journal ELSE <<>>
    BY <1>3 DEF LoadedJournal, Loaded, GaugesInv, TookInv
  <2>2. journal # Absent
    BY <2>1, JournalFits
  <2>3. (Counts(last)' <=> Counts(last)) /\ (Counts(body)' <=> Counts(body))
    BY <2>1 DEF Counts
  <2>4. CountsNow' => took'.journal = journal /\ Begins(journal, journal)
    BY <1>0, <2>1, <2>2 DEF CountsNow
  <2> QED BY <1>0, <2>1, <2>2, <2>3, <2>4 DEF CountersInv, Begins
<1>4. ASSUME NEW s \in Sample, ShownFrom(s)
      PROVE  CountersInv' /\ (Counts(last) /\ Counts(last)' =>
                                Begins(last.sample.journal, last'.sample.journal))
  <2>1. /\ body'.sample = s /\ s.journal = took.journal /\ last' = last /\ at' = "run"
        /\ at = "probe" /\ body'.request = request
    BY <1>0, <1>4 DEF ShownFrom, RunOver, QueueInv
  <2>2. (Counts(last)' <=> Counts(last)) /\ ~CountsNow' /\ (Counts(body)' => CountsNow)
    BY <2>1 DEF Counts, CountsNow
  <2> QED BY <1>0, <2>1, <2>2 DEF CountersInv, Begins
<1>5. CASE Responds
  <2>1. last' = body /\ body' = NoBody /\ at' = "idle"
    BY <1>5 DEF Responds, AnswerIs
  <2>2. (Counts(last)' <=> Counts(body)) /\ ~Counts(body)' /\ ~CountsNow'
    BY <1>0, <2>1 DEF Counts, CountsNow
  <2> QED BY <1>0, <2>1, <2>2 DEF CountersInv, Begins
<1>6. CASE AtHere /\ (Failed \/ Skipped)
  <2>1. CASE Failed
    <3>1. ~Counts(last)' /\ ~Counts(body)' /\ ~CountsNow'
      BY <1>0, <2>1 DEF Failed, AnswerIs, Counts, CountsNow
    <3> QED BY <3>1 DEF CountersInv
  <2>2. CASE Skipped
    <3>1. Here \notin body.shown /\ last' = last /\ body'.shown = body.shown /\ at' = "run"
      BY <1>0, <1>6, <2>2, HereIsNext DEF Skipped, RunOver
    <3>2. Kept /\ ~CountsNow'
      BY <3>1 DEF Counts, CountsNow
    <3> QED BY <1>1, <3>2
  <2> QED BY <1>6, <2>1, <2>2
<1> QED BY <1>2, <1>3, <1>4, <1>5, <1>6 DEF ExporterMoves

LEMMA CountersInvInit == ScrapeInit => CountersInv
  BY DEF ScrapeInit, CountersInv, CountsNow, Counts, NoBody

LEMMA CountersInvNext ==
    ASSUME ReaderInv, GaugesInv, CountersInv, [ScrapeNext]_allVars
    PROVE  CountersInv' /\ (Counts(last) /\ Counts(last)' =>
                              Begins(last.sample.journal, last'.sample.journal))
<1>0. OpsTypeInv /\ ScrapeTypeInv /\ QueueInv
  BY DEF ReaderInv, RunInv, GaugesInv
<1>1. last.sample.journal \in Seq(Entry)
  BY <1>0 DEF ScrapeTypeInv, Body, Sample
<1>2. CASE \E p \in Proc : Moves(p) /\ UNCHANGED scrapeVars
  BY <1>0, <1>1, <1>2, CountersStay, BeginsFacts DEF scrapeVars
<1>3. CASE (BeginRequest \/ ScrapeStep) /\ UNCHANGED vars
  BY <1>0, <1>3, ExporterCases, ExporterCounts
<1>4. CASE UNCHANGED vars /\ UNCHANGED scrapeVars
  <2>1. /\ at' = at /\ request' = request /\ took' = took /\ body' = body /\ last' = last
        /\ journal' = journal
    BY <1>4 DEF scrapeVars, vars, workspace, files
  <2>2. CountersInv'
    BY <2>1 DEF CountersInv, CountsNow, Counts, Begins
  <2> QED BY <1>1, <2>1, <2>2, BeginsFacts
<1> QED BY <1>2, <1>3, <1>4, ScrapeCases

\* The journal counters of a run never fall from one answer that shows them to the next:
\* what a later answer counted begins with what an earlier one did, whatever the commands
\* and a crash did in between.
THEOREM CountersOnlyRise == ScrapeSpec => CountersNeverFall
<1>1. ScrapeTypeInv => last.sample.journal \in Seq(Entry)
  BY DEF ScrapeTypeInv, Body, Sample
<1>2. ReaderInv /\ GaugesInv /\ CountersInv /\ [ScrapeNext]_allVars => ReaderInv' /\ GaugesInv' /\ CountersInv'
  BY GaugesInvNext, CountersInvNext
<1>3. ReaderInv /\ GaugesInv /\ CountersInv /\ [ScrapeNext]_allVars =>
         [LET shows(b) == Here \in b.shown /\ b.request.journal
          IN  shows(last) /\ shows(last') =>
                IsPrefix(last.sample.journal, last'.sample.journal)]_allVars
  <2> SUFFICES ASSUME ReaderInv, GaugesInv, CountersInv, [ScrapeNext]_allVars,
                      Counts(last), Counts(last')
               PROVE  IsPrefix(last.sample.journal, last'.sample.journal)
    BY DEF Counts
  <2>1. last.sample.journal \in Seq(Entry) /\ last'.sample.journal \in Seq(Entry)
    BY <1>1, GaugesInvNext DEF GaugesInv, ScrapeTypeInv, Body, Sample
  <2>2. Begins(last.sample.journal, last'.sample.journal)
    BY CountersInvNext DEF Counts
  <2> QED BY <2>1, <2>2, BeginsFacts
<1>4. Init /\ ScrapeInit => CountersInv
  BY CountersInvInit
<1> QED BY <1>2, <1>3, <1>4, GaugesInvInit, PTL DEF ScrapeSpec, CountersNeverFall

-----------------------------------------------------------------------------
(* No run is hidden *)

\* In a serial history, the command that moves is the only one under way.
LEMMA SerialStep ==
    ASSUME OpsTypeInv, HistoryInv, NEW p \in Proc, Moves(p), SerialHistory'
    PROVE  /\ SerialHistory /\ pc'[p] \notin {"failed", "refused", "crashed"}
           /\ \A q \in Proc : q # p => (Started(q) => Ended(q))
<1>1. CASE KillBegin(p) \/ RunBegin(p) \/ PatchBegin(p)
  <2>1. PICK o \in Ops, to \in {"failed", "append_event", "gate", "check_dir", "check_files"} :
           Begin(p, o, to)
    BY <1>1 DEF KillBegin, ReadStatus, RunBegin, PatchBegin, Ops
  <2>2. pc'[p] = to
    BY <2>1 DEF Begin, Goto, OpsTypeInv, OpsTypeOK, TypeOK
  <2> QED BY <2>1, <2>2, SerialBegin DEF OpsTypeInv, OpsTypeOK, AtRest
<1>2. CASE KillStep(p) \/ RunStep(p) \/ PatchStep(p) \/ Crash(p)
  <2>1. Started(p)
    BY <1>2, StepsAreLive, RunStepMoves, PatchStepMoves DEF KillStep, AppendEvent, AppendKillEntry,
       OpenState, FlushState, PatchRead, PatchStatus, PatchOpen, PatchFlush, Goto, KillPCs, Crash
  <2>2. pc' = [pc EXCEPT ![p] = pc'[p]] /\ before' = before /\ pc'[p] # "idle" /\ ~Ended(p) /\ TypeOK
    <3>1. pc \in [Proc -> PCs] /\ pc' \in [Proc -> PCs] /\ TypeOK
      BY OpsMoveType DEF OpsTypeInv, OpsTypeOK, TypeOK
    <3>2. \A q \in Proc : q # p => pc'[q] = pc[q]
      BY OthersKeep
    <3> QED BY <2>1, <3>1, <3>2, GateEnters DEF Started
  <2> QED BY <2>1, <2>2, SerialAlone
<1> QED BY <1>1, <1>2 DEF Moves

\* Who writes the connectivity artifacts.
LEMMA ArtifactMoves ==
    ASSUME OpsTypeInv, NEW p \in Proc, Moves(p)
    PROVE  \/ connFile' = connFile /\ pc[p] # "artifact_flush" /\ pc'[p] # "artifact_flush"
           \/ pc'[p] = "crashed" /\ connFile' = connFile
           \/ /\ op[p] \in PatchOps /\ op'[p] = op[p]
              /\ pc[p] = "artifact_open" /\ pc'[p] = "artifact_flush"
              /\ connFile' = [connFile EXCEPT ![op[p]] = Empty]
           \/ /\ op[p] \in PatchOps /\ op'[p] = op[p]
              /\ pc[p] = "artifact_flush" /\ pc'[p] = "section_read"
              /\ \E f \in Flush(connFile[op[p]], p) : connFile' = [connFile EXCEPT ![op[p]] = f]
<1>0. pc \in [Proc -> PCs] /\ OpsFit
  BY DEF OpsTypeInv, OpsTypeOK, TypeOK
<1>1. CASE (KillBegin(p) \/ KillStep(p) \/ Crash(p)) /\ UNCHANGED <<beat, connVars>>
  <2>1. connFile' = connFile
    BY <1>1 DEF connVars
  <2>2. \/ pc'[p] = "crashed"
        \/ pc[p] # "artifact_flush" /\ pc'[p] # "artifact_flush"
    BY <1>0, <1>1 DEF KillBegin, ReadStatus, Begin, KillStep, AppendEvent, AppendKillEntry,
       OpenState, FlushState, PatchRead, PatchStatus, PatchOpen, PatchFlush, Goto, Crash
  <2> QED BY <2>1, <2>2
<1>2. CASE (RunBegin(p) \/ PatchBegin(p)) /\ UNCHANGED <<files, seen, held, beat, connVars>>
  BY <1>0, <1>2 DEF RunBegin, PatchBegin, Begin, Goto, connVars
<1>3. CASE RunStep(p) /\ UNCHANGED connVars
  <2>1. pc[p] \in RunPCs /\ pc'[p] \in RunPCs \cup EndPCs
    BY <1>0, <1>3, RunStepMoves
  <2> QED BY <1>3, <2>1 DEF connVars, RunPCs, EndPCs
<1>4. CASE ArtifactOpen(p) \/ ArtifactFlush(p)
  <2>1. pc[p] \in PatchPCs /\ op' = op
    BY <1>4 DEF ArtifactOpen, ArtifactFlush, Goto, PatchPCs
  <2> QED BY <1>0, <1>4, <2>1 DEF ArtifactOpen, ArtifactFlush, Goto, OpsFit
<1>5. CASE PatchStep(p) /\ ~ArtifactOpen(p) /\ ~ArtifactFlush(p)
  BY <1>0, <1>5 DEF PatchStep, CheckFiles, InvalidTarget, SectionRead, SectionOpen, SectionFlush,
     SectionEntry, ReportRead, ReportOpen, ReportFlush, Goto, connVars
<1> QED BY <1>1, <1>2, <1>3, <1>4, <1>5 DEF Moves

\* Who writes the state of the switch.
LEMMA SwitchMoves ==
    ASSUME OpsTypeInv, NEW p \in Proc, Moves(p)
    PROVE  \/ /\ stateFile' = stateFile /\ pc[p] # "flush_state" /\ pc'[p] # "flush_state"
              /\ pc'[p] \in WrittenPCs /\ op'[p] \in KillOps => pc[p] \in WrittenPCs
           \/ pc'[p] = "crashed" /\ stateFile' = stateFile
           \/ /\ op[p] \in KillOps
              /\ pc[p] = "open_state" /\ pc'[p] = "flush_state" /\ stateFile' = Empty
           \/ /\ op[p] \in KillOps
              /\ pc[p] = "flush_state" /\ pc'[p] = "patch_read"
              /\ stateFile' \in Flush(stateFile, StateOf(p))
<1>0. pc \in [Proc -> PCs] /\ op \in [Proc -> Ops \cup {"none"}] /\ OpsFit
  BY DEF OpsTypeInv, OpsTypeOK, TypeOK
<1>1. CASE KillBegin(p) \/ RunBegin(p) \/ PatchBegin(p)
  BY <1>0, <1>1 DEF KillBegin, ReadStatus, RunBegin, PatchBegin, Begin, Goto, files, WrittenPCs
<1>2. CASE KillStep(p)
  <2>1. pc[p] \in KillPCs
    BY <1>2 DEF KillStep, AppendEvent, AppendKillEntry, OpenState, FlushState, PatchRead,
       PatchStatus, PatchOpen, PatchFlush, Goto, KillPCs
  <2>2. op[p] \in KillOps
    BY <1>0, <2>1 DEF OpsFit
  <2>3. CASE OpenState(p) \/ FlushState(p)
    BY <1>0, <2>2, <2>3 DEF OpenState, FlushState, Goto
  <2>4. CASE AppendEvent(p) \/ AppendKillEntry(p)
    BY <1>0, <2>4 DEF AppendEvent, AppendKillEntry, Goto, WrittenPCs
  <2>5. CASE PatchRead(p) \/ PatchStatus(p) \/ PatchOpen(p) \/ PatchFlush(p)
    BY <1>0, <2>5 DEF PatchRead, PatchStatus, PatchOpen, PatchFlush, Goto, WrittenPCs, files
  <2> QED BY <1>2, <2>3, <2>4, <2>5 DEF KillStep
<1>3. CASE RunStep(p)
  <2>1. stateFile' = stateFile /\ op' = op /\ pc[p] \in RunPCs /\ pc'[p] \in RunPCs \cup EndPCs
    BY <1>0, <1>3, RunStepMoves
  <2>2. op[p] \notin KillOps
    BY <1>0, <2>1 DEF OpsFit, RunOps, KillOps
  <2> QED BY <2>1, <2>2 DEF RunPCs, EndPCs
<1>4. CASE PatchStep(p)
  <2>1. stateFile' = stateFile /\ op' = op /\ pc[p] \in PatchPCs /\ pc'[p] \in PatchPCs \cup EndPCs
    BY <1>0, <1>4, PatchStepMoves
  <2>2. op[p] \notin KillOps
    BY <1>0, <2>1 DEF OpsFit, PatchOps, KillOps
  <2> QED BY <2>1, <2>2 DEF PatchPCs, EndPCs
<1>5. CASE Crash(p)
  BY <1>0, <1>5 DEF Crash, files
<1> QED BY <1>1, <1>2, <1>3, <1>4, <1>5 DEF Moves

\* A command under way is not behind the last kill command, unless it is that one.
LEMMA LastKillStays ==
    ASSUME OpsTypeInv, HistoryInv, NEW p \in Proc, Moves(p), NEW q \in Proc, LastKill(q)'
    PROVE  (q # p => LastKill(q) /\ op[p] \notin KillOps) /\ (pc[p] # "idle" => LastKill(q))
<1>0. /\ pc[p] # "idle" => op' = op /\ before' = before
      /\ ~Ended(p) /\ op \in [Proc -> Ops \cup {"none"}]
      /\ \A r \in Proc : r # p => op'[r] = op[r] /\ before'[r] = before[r]
  BY OthersKeep, GateEnters DEF OpsTypeInv, OpsTypeOK, TypeOK
<1>1. pc[p] # "idle" => LastKill(q)
  BY <1>0 DEF LastKill, Precedes
<1>2. ASSUME q # p PROVE op'[p] \notin KillOps
  <2>1. ~Precedes(p, q)
    BY <1>0 DEF HistoryInv
  <2> QED BY <1>0, <1>2, <2>1 DEF LastKill, Precedes
<1>3. ASSUME q # p, pc[p] = "idle" PROVE LastKill(q) /\ op[p] \notin KillOps
  <2>1. op[p] = "none"
    BY <1>3 DEF HistoryInv
  <2>2. op[p] \notin KillOps
    BY <2>1 DEF KillOps
  <2> QED BY <1>0, <1>3, <2>2 DEF LastKill, Precedes
<1> QED BY <1>0, <1>1, <1>2, <1>3

\* Commands that take turns leave their artifacts whole.
LEMMA WholeStays ==
    ASSUME OpsTypeInv, HistoryInv, WholeInv, NEW p \in Proc, Moves(p), SerialHistory'
    PROVE  /\ \A o \in PatchOps :
                 /\ connFile'[o] # Garbled
                 /\ connFile'[o] = Empty => \E q \in Proc : pc'[q] = "artifact_flush" /\ op'[q] = o
           /\ \A q \in Proc : pc'[q] = "artifact_flush" => connFile'[op'[q]] = Empty
<1>0. /\ SerialHistory /\ pc'[p] # "crashed" /\ p \notin NoFile /\ Empty # Garbled
      /\ connFile \in [PatchOps -> Proc \cup NoFile]
      /\ \A q \in Proc : q # p => /\ pc'[q] = pc[q] /\ op'[q] = op[q]
                                  /\ pc[q] # "artifact_flush"
  <2>1. \A q \in Proc : q # p => pc[q] # "artifact_flush"
    BY SerialStep DEF Started, Ended, EndPCs
  <2> QED BY <2>1, SerialStep, OthersKeep, FileAssumption DEF OpsTypeInv, OpsTypeOK, ConnTypeOK, NoFile
<1>1. /\ \A o \in PatchOps :
            /\ connFile[o] # Garbled
            /\ connFile[o] = Empty => pc[p] = "artifact_flush" /\ op[p] = o
      /\ pc[p] = "artifact_flush" => connFile[op[p]] = Empty
  BY <1>0 DEF WholeInv
<1>2. CASE connFile' = connFile /\ pc[p] # "artifact_flush" /\ pc'[p] # "artifact_flush"
  BY <1>0, <1>1, <1>2
<1>3. CASE /\ op[p] \in PatchOps /\ op'[p] = op[p]
           /\ pc[p] = "artifact_open" /\ pc'[p] = "artifact_flush"
           /\ connFile' = [connFile EXCEPT ![op[p]] = Empty]
  <2>1. connFile'[op[p]] = Empty /\ \A o \in PatchOps : o # op[p] => connFile'[o] = connFile[o]
    BY <1>0, <1>3
  <2> QED BY <1>0, <1>1, <1>3, <2>1
<1>4. CASE /\ op[p] \in PatchOps /\ op'[p] = op[p]
           /\ pc[p] = "artifact_flush" /\ pc'[p] = "section_read"
           /\ \E f \in Flush(connFile[op[p]], p) : connFile' = [connFile EXCEPT ![op[p]] = f]
  <2>1. connFile' = [connFile EXCEPT ![op[p]] = p]
    BY <1>1, <1>4 DEF Flush
  <2>2. connFile'[op[p]] = p /\ \A o \in PatchOps : o # op[p] => connFile'[o] = connFile[o]
    BY <1>0, <1>4, <2>1
  <2> QED BY <1>0, <1>1, <1>4, <2>2 DEF NoFile
<1> QED BY <1>0, <1>2, <1>3, <1>4, ArtifactMoves

\* And the switch as the last kill command set it.
LEMMA SwitchStays ==
    ASSUME OpsTypeInv, HistoryInv, WholeInv, NEW p \in Proc, Moves(p), SerialHistory'
    PROVE  \A q \in Proc :
              /\ pc'[q] = "flush_state" => stateFile' = Empty
              /\ LastKill(q)' /\ pc'[q] \in WrittenPCs => stateFile'.state = NewState(op'[q])
<1>0. /\ SerialHistory /\ pc'[p] # "crashed"
      /\ \A q \in Proc : q # p => pc'[q] = pc[q] /\ op'[q] = op[q] /\ pc[q] # "flush_state"
      /\ op' = op \/ pc[p] = "idle"
  <2>1. \A q \in Proc : q # p => pc[q] # "flush_state"
    BY SerialStep DEF Started, Ended, EndPCs
  <2> QED BY <2>1, SerialStep, OthersKeep, GateEnters
<1>1. /\ pc[p] = "flush_state" => stateFile = Empty
      /\ \A q \in Proc : LastKill(q) /\ pc[q] \in WrittenPCs => stateFile.state = NewState(op[q])
  BY <1>0 DEF WholeInv
<1>2. CASE /\ stateFile' = stateFile /\ pc[p] # "flush_state" /\ pc'[p] # "flush_state"
           /\ pc'[p] \in WrittenPCs /\ op'[p] \in KillOps => pc[p] \in WrittenPCs
  <2>1. ASSUME NEW q \in Proc, LastKill(q)', pc'[q] \in WrittenPCs
        PROVE  stateFile'.state = NewState(op'[q])
    <3>1. CASE q # p
      BY <1>0, <1>1, <1>2, <2>1, <3>1, LastKillStays
    <3>2. CASE q = p
      <4>1. op'[p] \in KillOps
        BY <2>1, <3>2 DEF LastKill
      <4>2. pc[p] \in WrittenPCs
        BY <1>2, <2>1, <3>2, <4>1
      <4>3. pc[p] # "idle"
        BY <4>2 DEF WrittenPCs
      <4> QED BY <1>0, <1>1, <1>2, <2>1, <3>2, <4>2, <4>3, LastKillStays
    <3> QED BY <3>1, <3>2
  <2> QED BY <1>0, <1>2, <2>1
<1>3. CASE op[p] \in KillOps /\ pc[p] = "open_state" /\ pc'[p] = "flush_state" /\ stateFile' = Empty
  <2>1. \A q \in Proc : LastKill(q)' => pc'[q] \notin WrittenPCs
    BY <1>3, LastKillStays DEF WrittenPCs
  <2> QED BY <1>3, <2>1
<1>4. CASE /\ op[p] \in KillOps /\ pc[p] = "flush_state" /\ pc'[p] = "patch_read"
           /\ stateFile' \in Flush(stateFile, StateOf(p))
  <2>1. stateFile' = StateOf(p) /\ op' = op
    BY <1>0, <1>1, <1>4 DEF Flush
  <2>2. stateFile'.state = NewState(op'[p])
    BY <2>1 DEF StateOf
  <2>3. \A q \in Proc : LastKill(q)' => q = p
    BY <1>4, LastKillStays
  <2>4. \A q \in Proc : pc'[q] # "flush_state"
    BY <1>0, <1>4
  <2> QED BY <2>2, <2>3, <2>4
<1> QED BY <1>0, <1>2, <1>3, <1>4, SwitchMoves

LEMMA StepWhole ==
    ASSUME OpsTypeInv, HistoryInv, WholeInv, NEW p \in Proc, Moves(p)
    PROVE  WholeInv'
  BY WholeStays, SwitchStays DEF WholeInv

\* The queue of a request runs from the neighbours it found to those it has shown.
LEMMA ExporterNeighbours ==
    ASSUME ScrapeTypeInv, QueueInv, NeighboursInv, ExporterMoves
    PROVE  NeighboursInv'
<1>0. /\ todo \in Seq(Ids) /\ body \in Body /\ Here \notin Neighbour
      /\ NoBody.failed = FALSE /\ Failure.request = body.request
  BY RunAssumption DEF ScrapeTypeInv, NoBody, Failure, Body
<1>1. ASSUME NEW shown, NEW sample, RunOver(shown, sample), at # "idle", at # "discover",
             Head(todo) \in shown \cup {Here}
      PROVE  NeighboursInv'
  <2>1. ToSet(todo) = {Head(todo)} \cup ToSet(todo')
    BY <1>0, <1>1, QueueTail DEF RunOver
  <2>2. /\ body'.shown = body.shown \cup shown /\ body'.failed = body.failed
        /\ last' = last /\ request' = request
    BY <1>1 DEF RunOver
  <2> QED BY <1>0, <1>1, <2>1, <2>2 DEF NeighboursInv
<1>2. CASE Requested
  BY <1>2 DEF Requested, NeighboursInv
<1>3. CASE Discovers
  <2>1. request.command = "serve" => Neighbour \subseteq ToSet(todo')
    BY <1>3 DEF Discovers
  <2> QED BY <1>3, <2>1 DEF Discovers, NeighboursInv
<1>4. CASE Neighbours
  BY <1>1, <1>4 DEF Neighbours
<1>5. CASE Responds
  <2>1. ToSet(todo) = {} /\ body.request = request /\ at = "run"
    BY <1>5 DEF Responds, QueueInv, ToSet
  <2>2. body.request.command = "serve" => Neighbour \subseteq body.shown
    BY <2>1 DEF NeighboursInv
  <2> QED BY <1>0, <1>5, <2>2 DEF Responds, AnswerIs, NeighboursInv
<1>6. CASE LoadedMetadata \/ LoadedMetrics \/ LoadedJournal \/ LoadedReadiness
  BY <1>6 DEF LoadedMetadata, LoadedMetrics, LoadedJournal, LoadedReadiness, Loaded, NeighboursInv
<1>7. CASE \E s \in Sample : ShownFrom(s)
  <2>1. Head(todo) = Here /\ at = "probe"
    BY <1>7 DEF ShownFrom, QueueInv, LoadPCs
  <2> QED BY <1>1, <1>7, <2>1 DEF ShownFrom
<1>8. CASE AtHere /\ (Failed \/ Skipped)
  <2>1. Head(todo) = Here /\ at # "idle" /\ at # "discover" /\ body.request = request
    BY <1>8 DEF AtHere, QueueInv, LoadPCs
  <2>2. CASE Failed
    BY <1>0, <2>1, <2>2 DEF Failed, AnswerIs, NeighboursInv
  <2>3. CASE Skipped
    BY <1>1, <2>1, <2>3 DEF Skipped
  <2> QED BY <1>8, <2>2, <2>3
<1> QED BY <1>2, <1>3, <1>4, <1>5, <1>6, <1>7, <1>8 DEF ExporterMoves

\* When the commands of a serial history have ended, an executed run can be read.
LEMMA NothingTorn ==
    ASSUME ReaderInv, PassInv, SerialInv, WholeInv, SerialHistory, Ran, AtRest
    PROVE  /\ runDir /\ Readable(metadata) /\ Readable(metrics)
           /\ \A o \in PatchOps : ~Malformed(connFile[o])
<1>1. PICK p \in Proc : op[p] \in {"backtest", "paper"}
  BY DEF Ran
<1>2. pc[p] = "done"
  <2>1. Started(p)
    BY <1>1 DEF PassInv, DurableInv, HistoryInv, Started
  <2> QED BY <2>1 DEF AtRest, SerialHistory, Ended, EndPCs
<1>3. Readable(metrics) /\ metadata # Absent
  BY <1>1, <1>2 DEF ReaderInv, WriterInv, RunsKept
<1>4. runDir
  BY <1>3 DEF ReaderInv, WriterInv, MetricsTold, Readable, NoFile
<1>5. Readable(metadata)
  BY <1>3 DEF SerialInv, Settled, Intact
<1>6. \A q \in Proc : pc[q] # "artifact_flush"
  BY DEF AtRest, Started, Ended, EndPCs
<1>7. \A o \in PatchOps : ~Malformed(connFile[o])
  BY <1>6 DEF WholeInv, Malformed
<1> QED BY <1>3, <1>4, <1>5, <1>7

LEMMA QuietAtRest ==
    ASSUME QuietInv
    PROVE  (Quiet(body) => AtRest) /\ (Quiet(last) => AtRest)
  BY DEF QuietInv, Quiet, AtRest

\* A command that moves is not among those that had ended.
LEMMA QuietStays ==
    ASSUME OpsTypeInv, ScrapeTypeInv, QuietInv, NEW p \in Proc, Moves(p), UNCHANGED scrapeVars
    PROVE  QuietInv'
<1>1. body' = body /\ last' = last /\ Started(p)' /\ ~Ended(p)
  BY GateEnters DEF scrapeVars, Started
<1>2. \A q \in body.after \cup last.after : Ended(q)'
  <2> SUFFICES ASSUME NEW q \in body.after \cup last.after PROVE Ended(q)'
    OBVIOUS
  <2>1. Ended(q) /\ q \in Proc
    BY DEF QuietInv, ScrapeTypeInv, Body
  <2>2. pc'[q] = pc[q]
    BY <2>1, EndedStays
  <2> QED BY <2>1, <2>2 DEF Ended
<1>3. p \notin body.after \cup last.after
  BY <1>1 DEF QuietInv
<1>4. ~Quiet(body)' /\ ~Quiet(last)'
  BY <1>1, <1>3 DEF Quiet
<1> QED BY <1>1, <1>2, <1>4 DEF QuietInv

\* What the exporter shows when nothing moves any more is what the files hold.
LEMMA ExporterQuiet ==
    ASSUME ReaderInv, PassInv, SerialInv, WholeInv, GaugesInv, QuietInv, ExporterMoves, UNCHANGED vars
    PROVE  QuietInv'
<1>0. /\ metadata' = metadata /\ connFile' = connFile
      /\ \A p \in Proc : (Started(p)' <=> Started(p)) /\ (Ended(p)' <=> Ended(p))
      /\ (SerialHistory' <=> SerialHistory) /\ (Ran' <=> Ran)
      /\ ScrapeTypeInv /\ QueueInv /\ Here \notin Neighbour
      /\ NoBody.shown = {} /\ Failure.shown = {} /\ Failure.after = body.after
      /\ todo \in Seq(Ids) /\ connFile \in [PatchOps -> Proc \cup NoFile]
  <2>1. /\ metadata' = metadata /\ connFile' = connFile /\ pc' = pc /\ op' = op /\ before' = before
    BY DEF vars, workspace, files, procs, connVars
  <2>2. Failure.shown = {} /\ Failure.after = body.after /\ connFile \in [PatchOps -> Proc \cup NoFile]
    BY DEF Failure, GaugesInv, ScrapeTypeInv, Body, ReaderInv, RunInv, OpsTypeInv, OpsTypeOK, ConnTypeOK
  <2> QED BY <2>1, <2>2, RunAssumption DEF Started, Ended, SerialHistory, Precedes, Ran, GaugesInv,
     ScrapeTypeInv, NoBody
<1> DEFINE Whole == SerialHistory /\ Ran
           Asked == at \notin {"idle", "discover"}
<1>1. Quiet(body) /\ Whole =>
         runDir /\ Readable(metadata) /\ Readable(metrics) /\ \A o \in PatchOps : ~Malformed(connFile[o])
  BY NothingTorn, QuietAtRest
<1>2. Quiet(body) /\ Whole => ~Torn
  BY <1>1 DEF Torn
<1>3. /\ \A p \in body.after \cup last.after : Ended(p)
      /\ Quiet(body) =>
            /\ at \in LoadPCs => took.metadata = metadata
            /\ at = "probe" => took.conn["readiness"] = connFile["readiness"]
            /\ Here \in body.shown => body.sample.metadata = metadata /\ body.sample.conn = connFile
            /\ Whole /\ Asked => Here \in body.shown \cup ToSet(todo)
      /\ Quiet(last) =>
            /\ Here \in last.shown => last.sample.metadata = metadata /\ last.sample.conn = connFile
            /\ Whole /\ last # NoBody => Here \in last.shown
  BY DEF QuietInv
<1>4. ASSUME body'.after = body.after, last' = last,
             Quiet(body) =>
                /\ at' \in LoadPCs => took'.metadata = metadata
                /\ at' = "probe" => took'.conn["readiness"] = connFile["readiness"]
                /\ Here \in body'.shown => body'.sample.metadata = metadata /\ body'.sample.conn = connFile
                /\ Whole /\ Asked' => Here \in body'.shown \cup ToSet(todo')
      PROVE  QuietInv'
  <2>1. (Quiet(body)' <=> Quiet(body)) /\ (Quiet(last)' <=> Quiet(last))
    BY <1>0, <1>4 DEF Quiet
  <2>2. \A p \in body'.after \cup last'.after : Ended(p)'
    BY <1>3, <1>4, <1>0 DEF ScrapeTypeInv, Body
  <2> QED BY <1>0, <1>3, <1>4, <2>1, <2>2 DEF QuietInv
<1>5. ASSUME last'.after = body.after, body' = NoBody, at' = "idle",
             Quiet(body) =>
                /\ Here \in last'.shown => last'.sample.metadata = metadata /\ last'.sample.conn = connFile
                /\ Whole => Here \in last'.shown
      PROVE  QuietInv'
  <2>1. NoBody.after = {} /\ (Quiet(last)' <=> Quiet(body))
    BY <1>0, <1>5 DEF Quiet, NoBody
  <2>2. \A p \in body'.after \cup last'.after : Ended(p)'
    BY <1>3, <1>5, <1>0, <2>1 DEF ScrapeTypeInv, Body
  <2> QED BY <1>0, <1>5, <2>1, <2>2 DEF QuietInv, LoadPCs
<1>6. CASE Requested
  <2>1. /\ body'.shown = {} /\ body'.after = {p \in Proc : Ended(p)} /\ last' = last /\ at' = "discover"
    BY <1>6 DEF Requested
  <2>2. \A p \in body'.after \cup last'.after : Ended(p)'
    BY <1>0, <1>3, <2>1 DEF ScrapeTypeInv, Body
  <2>3. Quiet(last)' <=> Quiet(last)
    BY <1>0, <2>1 DEF Quiet
  <2> QED BY <1>0, <1>3, <2>1, <2>2, <2>3 DEF QuietInv, LoadPCs
<1>7. CASE Discovers
  <2>1. /\ body' = body /\ last' = last /\ at' = "run"
        /\ runDir => Here \in ToSet(todo')
    BY <1>7 DEF Discovers
  <2> QED BY <1>1, <1>3, <1>4, <2>1 DEF LoadPCs
<1>8. CASE Neighbours
  <2>1. /\ body'.shown = body.shown \cup {Head(todo)} /\ body'.sample = body.sample
        /\ body'.after = body.after /\ last' = last /\ Head(todo) # Here /\ at = "run" /\ at' = "run"
        /\ todo # <<>> /\ todo' = Tail(todo)
    BY <1>0, <1>8 DEF Neighbours, RunOver
  <2>2. ToSet(todo) = {Head(todo)} \cup ToSet(todo')
    BY <1>0, <2>1, QueueTail
  <2> QED BY <1>3, <1>4, <2>1, <2>2 DEF LoadPCs
<1>9. CASE Responds
  <2>1. last' = body /\ body' = NoBody /\ at' = "idle" /\ at = "run" /\ ToSet(todo) = {}
    BY <1>9 DEF Responds, AnswerIs, ToSet
  <2> QED BY <1>3, <1>5, <2>1
<1>10. CASE LoadedMetadata \/ LoadedMetrics \/ LoadedJournal \/ LoadedReadiness
  <2>1. /\ body' = body /\ last' = last /\ todo' = todo /\ Asked
        /\ at = "run" \/ (at \in LoadPCs /\ took'.metadata = took.metadata)
        /\ at = "run" => took'.metadata = metadata
        /\ at' = "probe" => took'.conn["readiness"] = connFile["readiness"]
    BY <1>10 DEF LoadedMetadata, LoadedMetrics, LoadedJournal, LoadedReadiness, Loaded, LoadPCs
  <2> QED BY <1>3, <1>4, <2>1
<1>11. ASSUME NEW s \in Sample, ShownFrom(s) PROVE QuietInv'
  <2>1. /\ body'.shown = body.shown \cup {Here} /\ body'.sample = s /\ body'.after = body.after
        /\ last' = last /\ at = "probe" /\ at' = "run" /\ s.metadata = took.metadata
        /\ s.conn \in [PatchOps -> Proc \cup NoFile]
        /\ s.conn["readiness"] = took.conn["readiness"] /\ s.conn["probe"] = connFile["probe"]
    BY <1>11 DEF ShownFrom, RunOver
  <2>2. Quiet(body) => s.conn = connFile
    BY <1>0, <1>3, <2>1 DEF PatchOps
  <2> QED BY <1>3, <1>4, <2>1, <2>2 DEF LoadPCs
<1>12. CASE Torn /\ AtHere /\ (Failed \/ Skipped)
  <2>1. Here \notin body.shown /\ ~(Quiet(body) /\ Whole)
    BY <1>0, <1>2, <1>12, HereIsNext
  <2>2. CASE Failed
    <3>1. last' = Failure /\ body' = NoBody /\ at' = "idle"
      BY <2>2 DEF Failed, AnswerIs
    <3> QED BY <1>0, <1>5, <2>1, <3>1
  <2>3. CASE Skipped
    <3>1. body'.shown = body.shown /\ body'.after = body.after /\ last' = last /\ at' = "run"
      BY <2>3 DEF Skipped, RunOver
    <3> QED BY <1>4, <2>1, <3>1 DEF LoadPCs
  <2> QED BY <1>12, <2>2, <2>3
<1> QED BY <1>6, <1>7, <1>8, <1>9, <1>10, <1>11, <1>12 DEF ExporterMoves

\* What is known of an answer is that of a run at rest, when nothing began since.
LEMMA RestIsShown ==
    ASSUME ReaderInv, PassInv, SerialInv, WholeInv, QuietInv, ScrapeTypeInv
    PROVE  SerialRunShown
<1> SUFFICES ASSUME SerialHistory, Quiet(last), NEW p \in last.after, op[p] \in {"backtest", "paper"}
             PROVE  /\ Shown
                    /\ StatusLabel = IF Blocked(p) THEN "safety_blocked" ELSE "completed"
                    /\ \A q \in last.after : op[q] \in PatchOps => last.sample.conn[op[q]] # Absent
                    /\ \A q \in last.after :
                          /\ op[q] \in KillOps /\ Precedes(p, q)
                          /\ \A k \in last.after : op[k] \in KillOps => k = q \/ Precedes(k, q)
                          => KillSwitchState(last.sample.metadata) =
                                IF op[q] = "activate" THEN 2 ELSE 1
  BY DEF SerialRunShown, Quiet
<1>0. last.after \subseteq Proc /\ p \in Proc /\ HistoryInv
  BY DEF ScrapeTypeInv, Body, PassInv, DurableInv
<1>1. AtRest /\ Ran /\ last # NoBody
  BY <1>0, QuietAtRest DEF Ran, NoBody
<1>2. /\ Here \in last.shown /\ last.sample.metadata = metadata /\ last.sample.conn = connFile
  BY <1>1 DEF QuietInv
<1>3. Readable(metadata) /\ SerialKeepsUpdates /\ SectionsBacked
  BY <1>0, <1>1, NothingTorn, SerialFollows DEF ReaderInv, BackedInv
<1>4. \A q \in last.after : pc[q] = "done"
  <2> SUFFICES ASSUME NEW q \in last.after PROVE pc[q] = "done"
    OBVIOUS
  <2>1. Ended(q) /\ q \in Proc /\ Started(q)
    BY <1>0 DEF QuietInv, Ended, EndPCs, Started
  <2> QED BY <2>1 DEF SerialHistory, Ended, EndPCs
<1>5. StatusLabel = IF Blocked(p) THEN "safety_blocked" ELSE "completed"
  BY <1>0, <1>1, <1>2, <1>3, <1>4 DEF SerialKeepsUpdates, AtRest, StatusLabel
<1>6. ASSUME NEW q \in last.after, op[q] \in PatchOps PROVE last.sample.conn[op[q]] # Absent
  <2>1. op[q] \in metadata.sections
    BY <1>0, <1>1, <1>3, <1>4, <1>6 DEF SerialKeepsUpdates, AtRest
  <2> QED BY <1>2, <1>3, <1>6, <2>1 DEF SectionsBacked
<1>7. ASSUME NEW q \in last.after, op[q] \in KillOps, Precedes(p, q),
             \A k \in last.after : op[k] \in KillOps => k = q \/ Precedes(k, q)
      PROVE  KillSwitchState(last.sample.metadata) = IF op[q] = "activate" THEN 2 ELSE 1
  <2>1. metadata.safety = stateFile.state
    BY <1>0, <1>1, <1>3, <1>4, <1>7 DEF SerialKeepsUpdates, AtRest, RunOps
  <2>2. \A k \in Proc : op[k] \in KillOps => k \in last.after
    BY <1>0 DEF HistoryInv, Quiet, Started, KillOps
  <2>3. LastKill(q)
    BY <1>7, <2>2 DEF LastKill
  <2>4. stateFile.state = NewState(op[q])
    BY <1>0, <1>4, <2>3 DEF WholeInv, WrittenPCs
  <2>5. last.sample.metadata.safety = IF op[q] = "activate" THEN "active" ELSE "cleared"
    BY <1>2, <2>1, <2>4 DEF NewState
  <2> QED BY <2>5 DEF KillSwitchState
<1> QED BY <1>2, <1>5, <1>6, <1>7 DEF Shown

\* All of it, from the start and at every step.
ShownInv == ReaderInv /\ PassInv /\ SerialInv /\ WholeInv /\ GaugesInv /\ NeighboursInv /\ QuietInv

LEMMA ShownInvInit == Init /\ ScrapeInit => ShownInv
<1> SUFFICES ASSUME Init, ScrapeInit PROVE WholeInv /\ NeighboursInv /\ QuietInv
  BY GaugesInvInit, PassInvInit, SerialInvInit DEF ShownInv
<1>1. /\ \A p \in Proc : pc[p] = "idle"
      /\ \A o \in PatchOps : connFile[o] = Absent
      /\ Absent # Empty /\ Absent # Garbled
      /\ at = "idle" /\ body = NoBody /\ last = NoBody
      /\ NoBody.shown = {} /\ NoBody.after = {} /\ NoBody.failed = FALSE
      /\ NoBody.request.command = "none"
  BY FileAssumption DEF Init, FreshInit, ProcInit, ConnInit, ScrapeInit, NoBody, NoRequest
<1>2. WholeInv
  BY <1>1 DEF WholeInv, WrittenPCs
<1>3. NeighboursInv
  BY <1>1 DEF NeighboursInv
<1>4. QuietInv
  BY <1>1 DEF QuietInv, LoadPCs
<1> QED BY <1>2, <1>3, <1>4

LEMMA ShownInvNext == ShownInv /\ [ScrapeNext]_allVars => ShownInv'
<1> SUFFICES ASSUME ShownInv, [ScrapeNext]_allVars PROVE ShownInv'
  OBVIOUS
<1>0. /\ OpsTypeInv /\ HistoryInv /\ ScrapeTypeInv /\ QueueInv
      /\ ReaderInv /\ PassInv /\ SerialInv /\ WholeInv /\ GaugesInv /\ NeighboursInv /\ QuietInv
  BY DEF ShownInv, ReaderInv, RunInv, GaugesInv, PassInv, DurableInv
<1>1. ReaderInv' /\ GaugesInv'
  BY <1>0, GaugesInvNext
<1>2. [Next]_vars
  BY DEF ScrapeNext, allVars
<1>3. PassInv' /\ SerialInv'
  BY <1>0, <1>2, PassInvNext, SerialInvNext
<1>4. CASE \E p \in Proc : Moves(p) /\ UNCHANGED scrapeVars
  <2>1. WholeInv' /\ QuietInv'
    BY <1>0, <1>4, StepWhole, QuietStays
  <2>2. NeighboursInv'
    BY <1>0, <1>4 DEF NeighboursInv, scrapeVars
  <2> QED BY <1>1, <1>3, <2>1, <2>2 DEF ShownInv
<1>5. CASE UNCHANGED vars
  <2>1. /\ pc' = pc /\ op' = op /\ before' = before /\ connFile' = connFile /\ stateFile' = stateFile
        /\ metadata' = metadata
    BY <1>5 DEF vars, workspace, files, procs, connVars
  <2>2. WholeInv'
    BY <1>0, <2>1 DEF WholeInv, SerialHistory, Started, Precedes, LastKill
  <2>3. CASE BeginRequest \/ ScrapeStep
    <3>1. ExporterMoves
      BY <1>0, <2>3, ExporterCases
    <3> QED BY <1>0, <1>1, <1>3, <1>5, <2>2, <3>1, ExporterNeighbours, ExporterQuiet DEF ShownInv
  <2>4. CASE UNCHANGED scrapeVars
    <3>1. NeighboursInv' /\ QuietInv'
      BY <1>0, <2>1, <2>4 DEF NeighboursInv, QuietInv, Quiet, Ran, SerialHistory, Started, Ended,
         Precedes, scrapeVars
    <3> QED BY <1>1, <1>3, <2>2, <3>1 DEF ShownInv
  <2> QED BY <1>4, <2>3, <2>4, ScrapeCases
<1> QED BY <1>4, <1>5, ScrapeCases

\* No run is hidden by another one's trouble, and a run at rest is shown as it is: an
\* answer that no command overlaps has the run that was executed, with its last status, its
\* connectivity artifacts and the switch as the last kill command left it; a torn file takes
\* only its own run out of an answer.
THEOREM NothingIsHidden == ScrapeSpec => []NothingHidden
<1>1. ShownInv => NothingHidden
  BY RestIsShown DEF ShownInv, NothingHidden, NeighboursShown, NeighboursInv, GaugesInv
<1> QED BY <1>1, ShownInvInit, ShownInvNext, PTL DEF ScrapeSpec
=============================================================================
