------------------------- MODULE PullRequestProofs -------------------------
(***************************************************************************)
(* Proofs about ChatCommands, the pull request with its reviews and its    *)
(* chat commands, for every number of jobs and mentions, every set of      *)
(* texts, files and reports, and every configuration.                      *)
(*                                                                         *)
(* The invariants are about one record at a time (a job's locals, a        *)
(* command's locals) or about a text that someone holds: the pull request  *)
(* itself, or a job's or a command's snapshot of it.                       *)
(***************************************************************************)
EXTENDS ChatCommands, TLAPS

-----------------------------------------------------------------------------
(* The shapes of the records.                                              *)

Findings == UNION Reports

TextRec == [head : 1..MaxHead, open : BOOLEAN, title : Titles,
            marked : BOOLEAN, body : Bodies, section : BOOLEAN]

ReviewRec == [by : {"pipeline", "human", "chat", "suggest"},
              event : {"REQUEST_CHANGES", "APPROVED", "COMMENT"},
              errors : SUBSET {f.message : f \in Findings},
              over : BOOLEAN, authorised : BOOLEAN]

JobPlaces == ReviewEnded \cup {"prepare", "diff", "files", "generate", "verify",
                               "metadata", "strip", "post"}

JobRec == [pc : JobPlaces, text : TextRec, force : BOOLEAN,
           workspace : {"none", "plain", "configured", "disabled"},
           incremental : BOOLEAN, known : BOOLEAN,
           diff : SUBSET PathSet, changed : SUBSET PathSet,
           quoted : SUBSET PathSet, attempt : Nat,
           raw : SUBSET Findings, findings : SUBSET Findings,
           todo : SUBSET Findings, turn : Nat, dropped : SUBSET Findings,
           blocking : BOOLEAN]

ChatPlaces == Commands \cup {"idle", "question", "approval", "reply", "patches",
                "findings", "authorise", "remember", "note", "refuse",
                "approve", "stamp", "answered", "failed"}

ChatRec == [pc : ChatPlaces, text : TextRec, blocked : BOOLEAN,
            over : BOOLEAN, authorised : BOOLEAN, replies : Nat]

Types ==
    /\ pr \in TextRec
    /\ reviews \in Seq(ReviewRec)
    /\ job \in [Jobs -> JobRec]
    /\ chat \in [Chats -> ChatRec]

-----------------------------------------------------------------------------
(* The invariants.                                                         *)

(* The findings a job still holds are those reported, at or above the      *)
(* floor, less the dropped ones; those not yet judged are among them, and  *)
(* only the agentic verifier drops some and goes on.                       *)
FindingsSound(k) ==
    /\ k.pc \in {"prepare", "diff", "files", "generate"} => k.dropped = {}
    /\ k.pc = "verify" =>
          /\ k.findings = {f \in k.raw : f.severity >= MinSeverity /\ f \notin k.dropped}
          /\ k.todo \subseteq k.findings
          /\ k.dropped # {} => Agentic /\ k.workspace # "none"
    /\ k.pc = "metadata" =>
          k.findings = {f \in k.raw : /\ f.severity >= MinSeverity
                                      /\ f \notin k.dropped
                                      /\ k.changed = {} \/ f.path \in k.changed}

(* Once filtered, a configured job's paths hold no ignored one. *)
PathsSound(k) ==
    k.pc \in {"files", "generate", "verify", "metadata"} /\ k.workspace = "configured"
        => (k.diff \cup k.changed) \cap Ignored = {}

(* By then the marker and the post know nothing of the workspace. *)
LocalsDropped(k) == k.pc \in {"strip", "post"} => k.workspace = "none"

JobSound(k) == FindingsSound(k) /\ PathsSound(k) /\ LocalsDropped(k)

(* A command that goes on to approve over an objection was authorised. *)
ChatSound(k) ==
    /\ k.pc \in {"directed", "approval", "findings"} => ~k.over /\ ~k.blocked
    /\ k.pc \in {"remember", "approve"} =>
          ((k.over \/ k.blocked) => k.authorised)

(* A text the bot may write back: words of one person at one time, and the *)
(* marker whole, or not there, and not without an override.                *)
Writable(t) ==
    /\ <<t.title, t.body>> \in versions
    /\ t.marked = t.section
    /\ t.marked => Overridden

HoldsText == {"findings", "authorise", "remember", "note", "refuse", "approve",
              "stamp"}

TextsSound ==
    /\ Writable(pr)
    /\ \A j \in Jobs : job[j].pc \notin ReviewEnded => Writable(job[j].text)
    /\ \A c \in Chats : chat[c].pc \in HoldsText => Writable(chat[c].text)
    /\ \A c \in Chats : chat[c].pc = "stamp" => Overridden

JobsSound == \A j \in Jobs : JobSound(job[j])

ChatsSound == \A c \in Chats : ChatSound(chat[c])

-----------------------------------------------------------------------------
(* The records that actions make, one lemma per kind.                      *)

LEMMA BlankType == Blank \in TextRec
<1>1. PICK t \in Texts : TRUE
  BY PullRequestAssumption
<1>2. t[1] \in Titles /\ t[2] \in Bodies
  BY DEF Titles, Bodies
<1>3. (CHOOSE x \in Titles : TRUE) \in Titles /\ (CHOOSE b \in Bodies : TRUE) \in Bodies
  BY <1>2
<1>4. 1 \in 1..MaxHead
  BY PullRequestAssumption
<1>. QED
  BY <1>3, <1>4 DEF Blank, TextRec

LEMMA NoJobType == NoJob \in JobRec
BY BlankType DEF NoJob, JobRec, JobPlaces, ReviewEnded

LEMMA NoChatType == NoChat \in ChatRec
BY BlankType DEF NoChat, ChatRec, ChatPlaces

(* A job whose call has returned, and one that was just queued. *)
LEMMA ReturnedJob ==
    ASSUME NEW p \in ReviewEnded
    PROVE  LET r == [NoJob EXCEPT !.pc = p]
           IN  r \in JobRec /\ r.pc = p /\ JobSound(r)
<1> DEFINE r == [NoJob EXCEPT !.pc = p]
<1>1. r \in JobRec /\ r.pc = p
  BY NoJobType DEF JobRec, JobPlaces
<1>2. JobSound(r)
  BY <1>1 DEF JobSound, FindingsSound, PathsSound, LocalsDropped, ReviewEnded
<1>. QED
  BY <1>1, <1>2

LEMMA QueuedJob ==
    ASSUME NEW t \in TextRec, NEW f \in BOOLEAN, NEW p \in {"skipped", "prepare"}
    PROVE  LET r == [NoJob EXCEPT !.text = t, !.force = f, !.pc = p]
           IN  r \in JobRec /\ r.text = t /\ JobSound(r)
<1> DEFINE r == [NoJob EXCEPT !.text = t, !.force = f, !.pc = p]
<1>1. r \in JobRec /\ r.pc = p /\ r.text = t /\ r.dropped = {}
  BY NoJobType DEF NoJob, JobRec, JobPlaces, ReviewEnded
<1>2. JobSound(r)
  BY <1>1 DEF JobSound, FindingsSound, PathsSound, LocalsDropped
<1>. QED
  BY <1>1, <1>2

(* cap_diff shows no file that was not in the diff. *)
LEMMA CapDiffWithin ==
    ASSUME NEW files
    PROVE  CapDiff(files) \subseteq files
BY DEF CapDiff

SameWords(t, u) ==
    /\ t.title = u.title /\ t.body = u.body
    /\ t.marked = u.marked /\ t.section = u.section

(* What a step of a review makes of the job's record. *)
JobMove(k, r) ==
    /\ r \in JobRec /\ JobSound(r)
    /\ r.pc \in ReviewEnded \/ (k.pc \notin ReviewEnded /\ SameWords(r.text, k.text))

LEMMA MoveReturn ==
    ASSUME NEW k, NEW p \in ReviewEnded
    PROVE  JobMove(k, [NoJob EXCEPT !.pc = p])
BY ReturnedJob DEF JobMove

(* What Prepare makes of the record of a job that goes on.                 *)
AsPrepared(k, w, q, i, n, d) ==
    [k EXCEPT !.pc = "diff", !.workspace = w, !.force = FALSE,
              !.quoted = q, !.incremental = i, !.known = n, !.diff = d]

LEMMA MovePrepare ==
    ASSUME NEW k \in JobRec, JobSound(k), k.pc = "prepare",
           NEW w \in {"none", "plain", "configured", "disabled"},
           NEW q \in SUBSET PathSet,
           NEW i \in BOOLEAN, NEW n \in BOOLEAN, NEW d \in SUBSET PathSet
    PROVE  JobMove(k, AsPrepared(k, w, q, i, n, d))
<1> DEFINE r == AsPrepared(k, w, q, i, n, d)
<1>1. r \in JobRec /\ r.pc = "diff" /\ r.text = k.text /\ r.dropped = k.dropped
  BY ZenonT(60) DEF JobRec, JobPlaces, AsPrepared
<1>2. JobSound(r)
  BY <1>1 DEF JobSound, FindingsSound, PathsSound, LocalsDropped
<1>. QED
  BY <1>1, <1>2 DEF JobMove, SameWords, ReviewEnded

LEMMA MoveDiff ==
    ASSUME NEW k \in JobRec, JobSound(k), k.pc = "diff",
           NEW d \in SUBSET PathSet, NEW ch \in SUBSET PathSet,
           NEW p \in {"generate", "files"},
           k.workspace = "configured" => (d \cup ch) \cap Ignored = {}
    PROVE  JobMove(k, [k EXCEPT !.diff = d, !.changed = ch, !.text.head = 1,
                          !.known = FALSE, !.incremental = FALSE, !.pc = p])
<1> DEFINE r == [k EXCEPT !.diff = d, !.changed = ch, !.text.head = 1,
                          !.known = FALSE, !.incremental = FALSE, !.pc = p]
<1>0. 1 \in 1..MaxHead
  BY PullRequestAssumption
<1>1. /\ r \in JobRec /\ r.pc = p /\ r.dropped = k.dropped
      /\ r.workspace = k.workspace /\ r.diff = d /\ r.changed = ch
      /\ r.text = [k.text EXCEPT !.head = 1]
  BY <1>0 DEF JobRec, JobPlaces, TextRec
<1>2. SameWords(r.text, k.text)
  BY <1>1 DEF SameWords, JobRec, TextRec
<1>3. JobSound(r)
  BY <1>1 DEF JobSound, FindingsSound, PathsSound, LocalsDropped
<1>. QED
  BY <1>1, <1>2, <1>3 DEF JobMove, ReviewEnded

LEMMA MoveFiles ==
    ASSUME NEW k \in JobRec, JobSound(k), k.pc = "files", NEW ch \in SUBSET PathSet,
           k.workspace = "configured" => ch \cap Ignored = {}
    PROVE  JobMove(k, [k EXCEPT !.changed = ch, !.pc = "generate"])
<1> DEFINE r == [k EXCEPT !.changed = ch, !.pc = "generate"]
<1>1. /\ r \in JobRec /\ r.pc = "generate" /\ r.dropped = k.dropped
      /\ r.workspace = k.workspace /\ r.diff = k.diff /\ r.changed = ch
      /\ r.text = k.text
  BY DEF JobRec, JobPlaces
<1>2. JobSound(r)
  BY <1>1 DEF JobSound, FindingsSound, PathsSound, LocalsDropped
<1>. QED
  BY <1>1, <1>2 DEF JobMove, SameWords, ReviewEnded

LEMMA MoveGenerate ==
    ASSUME NEW k \in JobRec, JobSound(k), k.pc = "generate", NEW R \in Reports
    PROVE  JobMove(k, [k EXCEPT !.raw = R, !.findings = ApplySeverityFloor(R),
                          !.todo = ApplySeverityFloor(R), !.pc = "verify",
                          !.attempt = 1, !.quoted = {}])
<1> DEFINE r == [k EXCEPT !.raw = R, !.findings = ApplySeverityFloor(R),
                          !.todo = ApplySeverityFloor(R), !.pc = "verify",
                          !.attempt = 1, !.quoted = {}]
<1>0. R \in SUBSET Findings /\ ApplySeverityFloor(R) \in SUBSET Findings
  BY DEF Findings, ApplySeverityFloor
<1>1. /\ r \in JobRec /\ r.pc = "verify" /\ r.dropped = k.dropped
      /\ r.workspace = k.workspace /\ r.diff = k.diff /\ r.changed = k.changed
      /\ r.text = k.text /\ r.raw = R /\ r.findings = ApplySeverityFloor(R)
      /\ r.todo = ApplySeverityFloor(R)
  BY <1>0 DEF JobRec, JobPlaces
<1>2. k.dropped = {}
  BY DEF JobSound, FindingsSound
<1>3. JobSound(r)
  BY <1>1, <1>2 DEF JobSound, FindingsSound, PathsSound, LocalsDropped,
                    ApplySeverityFloor
<1>. QED
  BY <1>1, <1>3 DEF JobMove, SameWords, ReviewEnded

LEMMA MoveRetry ==
    ASSUME NEW k \in JobRec, JobSound(k), k.pc = "generate", NEW n \in Nat
    PROVE  JobMove(k, [k EXCEPT !.attempt = n])
<1> DEFINE r == [k EXCEPT !.attempt = n]
<1>1. /\ r \in JobRec /\ r.pc = k.pc /\ r.dropped = k.dropped
      /\ r.workspace = k.workspace /\ r.diff = k.diff /\ r.changed = k.changed
      /\ r.text = k.text
  BY DEF JobRec
<1>2. JobSound(r)
  BY <1>1 DEF JobSound, FindingsSound, PathsSound, LocalsDropped
<1>. QED
  BY <1>1, <1>2 DEF JobMove, SameWords, ReviewEnded

(* The end of verification, for a record whose findings add up. *)
LEMMA MoveVerified ==
    ASSUME NEW k, NEW l \in JobRec, k.pc = "verify", l.pc = "verify",
           l.text = k.text, PathsSound(l),
           l.findings = {f \in l.raw : f.severity >= MinSeverity /\ f \notin l.dropped}
    PROVE  JobMove(k, Verified(l, l.findings))
<1>1. l.findings \in SUBSET Findings
  BY DEF JobRec
<1>2. PICK F : F = DropOutside(ApplySeverityFloor(l.findings), l.changed)
  OBVIOUS
<1>3. F \in SUBSET Findings
  BY <1>1, <1>2 DEF DropOutside, ApplySeverityFloor
<1> DEFINE r == [l EXCEPT !.findings = F, !.todo = {}, !.turn = 0, !.pc = "metadata"]
<1>4. /\ r \in JobRec /\ r.pc = "metadata" /\ r.dropped = l.dropped
      /\ r.workspace = l.workspace /\ r.diff = l.diff /\ r.changed = l.changed
      /\ r.text = l.text /\ r.raw = l.raw /\ r.findings = F
  BY <1>3 DEF JobRec, JobPlaces
<1>5. F = {f \in l.raw : /\ f.severity >= MinSeverity
                         /\ f \notin l.dropped
                         /\ l.changed = {} \/ f.path \in l.changed}
  BY <1>2 DEF DropOutside, ApplySeverityFloor
<1>6. JobSound(r)
  BY <1>4, <1>5 DEF JobSound, FindingsSound, PathsSound, LocalsDropped
<1>7. JobMove(k, r)
  BY <1>4, <1>6 DEF JobMove, SameWords, ReviewEnded
<1>8. Verified(l, l.findings) = r
  BY <1>2 DEF Verified
<1>. QED
  BY <1>7, <1>8

LEMMA MoveSkipped ==
    ASSUME NEW k \in JobRec, JobSound(k), k.pc = "verify"
    PROVE  JobMove(k, Verified(k, k.findings))
BY MoveVerified DEF JobSound, FindingsSound

(* verify_findings drops what one answer names. *)
LEMMA MoveSimple ==
    ASSUME NEW k \in JobRec, JobSound(k), k.pc = "verify",
           ~(Agentic /\ k.workspace # "none"), NEW D \in SUBSET k.todo
    PROVE  JobMove(k, Verified([k EXCEPT !.dropped = D], k.findings \ D))
<1> DEFINE l == [k EXCEPT !.dropped = D, !.findings = k.findings \ D]
<1>1. /\ k.dropped = {} /\ D \in SUBSET k.findings /\ k.findings \in SUBSET Findings
      /\ k.findings = {f \in k.raw : f.severity >= MinSeverity /\ f \notin k.dropped}
  BY DEF JobSound, FindingsSound, JobRec
<1>2. /\ l \in JobRec /\ l.pc = "verify" /\ l.text = k.text /\ l.raw = k.raw
      /\ l.dropped = D /\ l.findings = k.findings \ D
      /\ l.workspace = k.workspace /\ l.diff = k.diff /\ l.changed = k.changed
  BY <1>1 DEF JobRec
<1>3. l.findings = {f \in l.raw : f.severity >= MinSeverity /\ f \notin l.dropped}
  BY <1>1, <1>2
<1>4. PathsSound(l)
  BY <1>2 DEF JobSound, PathsSound
<1>5. JobMove(k, Verified(l, l.findings))
  BY <1>2, <1>3, <1>4, MoveVerified
<1>6. Verified(l, l.findings) = Verified([k EXCEPT !.dropped = D], k.findings \ D)
  BY <1>2 DEF Verified, JobRec
<1>. QED
  BY <1>5, <1>6

(* verify_one ended for a finding: the others are next, or it was the last. *)
LEMMA MoveLeft ==
    ASSUME NEW k, NEW l \in JobRec, k.pc = "verify", l.pc = "verify",
           l.text = k.text, PathsSound(l), l.todo \subseteq l.findings,
           Agentic, l.workspace # "none",
           l.findings = {f \in l.raw : f.severity >= MinSeverity /\ f \notin l.dropped}
    PROVE  JobMove(k, IF l.todo = {} THEN Verified(l, l.findings) ELSE l)
<1>1. JobMove(k, Verified(l, l.findings))
  BY MoveVerified
<1>2. JobSound(l)
  BY DEF JobSound, FindingsSound, LocalsDropped
<1>3. JobMove(k, l)
  BY <1>2 DEF JobMove, SameWords, ReviewEnded
<1>. QED
  BY <1>1, <1>3

LEMMA MoveDropped ==
    ASSUME NEW k \in JobRec, JobSound(k), k.pc = "verify", NEW f \in k.todo,
           Agentic, k.workspace # "none"
    PROVE  JobMove(k, Judged([k EXCEPT !.dropped = k.dropped \cup {f}], f, TRUE))
<1>1. /\ k.findings = {g \in k.raw : g.severity >= MinSeverity /\ g \notin k.dropped}
      /\ k.todo \subseteq k.findings /\ f \in Findings
      /\ k.findings \in SUBSET Findings /\ k.dropped \in SUBSET Findings
      /\ k.todo \in SUBSET Findings
  BY DEF JobSound, FindingsSound, JobRec
<1> DEFINE d == [k EXCEPT !.dropped = k.dropped \cup {f}]
           l == [d EXCEPT !.todo = d.todo \ {f}, !.turn = 0,
                          !.findings = d.findings \ {f}]
<1>2. /\ d \in JobRec /\ d.todo = k.todo /\ d.findings = k.findings
      /\ d.dropped = k.dropped \cup {f} /\ d.pc = "verify" /\ d.text = k.text
      /\ d.raw = k.raw /\ d.workspace = k.workspace /\ d.diff = k.diff
      /\ d.changed = k.changed
  BY <1>1 DEF JobRec
<1>3. /\ l \in JobRec /\ l.todo = k.todo \ {f} /\ l.findings = k.findings \ {f}
      /\ l.dropped = k.dropped \cup {f} /\ l.pc = "verify" /\ l.text = k.text
      /\ l.raw = k.raw /\ l.workspace = k.workspace /\ l.diff = k.diff
      /\ l.changed = k.changed
  <2> HIDE DEF d
  <2>. QED
    BY <1>1, <1>2 DEF JobRec
<1>4. /\ l.findings = {g \in l.raw : g.severity >= MinSeverity /\ g \notin l.dropped}
      /\ l.todo \subseteq l.findings /\ PathsSound(l)
  <2> HIDE DEF l
  <2>. QED
    BY <1>1, <1>3 DEF JobSound, PathsSound
<1>5. JobMove(k, IF l.todo = {} THEN Verified(l, l.findings) ELSE l)
  <2> HIDE DEF l
  <2>. QED
    BY <1>3, <1>4, MoveLeft
<1>6. Judged(d, f, TRUE) = IF l.todo = {} THEN Verified(l, l.findings) ELSE l
  BY DEF Judged
<1>. QED
  BY <1>5, <1>6

LEMMA MoveKept ==
    ASSUME NEW k \in JobRec, JobSound(k), k.pc = "verify", NEW f \in k.todo,
           Agentic, k.workspace # "none"
    PROVE  JobMove(k, Judged(k, f, FALSE))
<1>1. /\ k.findings = {g \in k.raw : g.severity >= MinSeverity /\ g \notin k.dropped}
      /\ k.todo \subseteq k.findings
      /\ k.findings \in SUBSET Findings /\ k.todo \in SUBSET Findings
  BY DEF JobSound, FindingsSound, JobRec
<1> DEFINE l == [k EXCEPT !.todo = k.todo \ {f}, !.turn = 0, !.findings = k.findings]
<1>2. /\ l \in JobRec /\ l.todo = k.todo \ {f} /\ l.findings = k.findings
      /\ l.dropped = k.dropped /\ l.pc = "verify" /\ l.text = k.text
      /\ l.raw = k.raw /\ l.workspace = k.workspace /\ l.diff = k.diff
      /\ l.changed = k.changed
  BY <1>1 DEF JobRec
<1>3. /\ l.findings = {g \in l.raw : g.severity >= MinSeverity /\ g \notin l.dropped}
      /\ l.todo \subseteq l.findings /\ PathsSound(l)
  <2> HIDE DEF l
  <2>. QED
    BY <1>1, <1>2 DEF JobSound, PathsSound
<1>4. JobMove(k, IF l.todo = {} THEN Verified(l, l.findings) ELSE l)
  <2> HIDE DEF l
  <2>. QED
    BY <1>2, <1>3, MoveLeft
<1>5. Judged(k, f, FALSE) = IF l.todo = {} THEN Verified(l, l.findings) ELSE l
  BY DEF Judged
<1>. QED
  BY <1>4, <1>5

LEMMA MoveTool ==
    ASSUME NEW k \in JobRec, JobSound(k), k.pc = "verify"
    PROVE  JobMove(k, UseTool(k))
<1> DEFINE r == [k EXCEPT !.turn = k.turn + 1]
<1>1. /\ r \in JobRec /\ r.pc = k.pc /\ r.dropped = k.dropped
      /\ r.workspace = k.workspace /\ r.diff = k.diff /\ r.changed = k.changed
      /\ r.text = k.text /\ r.raw = k.raw /\ r.findings = k.findings
      /\ r.todo = k.todo
  BY DEF JobRec
<1>2. JobSound(r)
  BY <1>1 DEF JobSound, FindingsSound, PathsSound, LocalsDropped
<1>. QED
  BY <1>1, <1>2 DEF JobMove, SameWords, ReviewEnded, UseTool

LEMMA MoveMetadata ==
    ASSUME NEW k \in JobRec, k.pc = "metadata", NEW b \in BOOLEAN
    PROVE  JobMove(k, [NoJob EXCEPT !.pc = "strip", !.text = k.text,
                                    !.findings = k.findings, !.blocking = b])
<1> DEFINE r == [NoJob EXCEPT !.pc = "strip", !.text = k.text,
                              !.findings = k.findings, !.blocking = b]
<1>1. r \in JobRec /\ r.pc = "strip" /\ r.text = k.text /\ r.workspace = "none"
  BY ZenonT(60), NoJobType DEF NoJob, JobRec, JobPlaces
<1>2. JobSound(r)
  BY <1>1 DEF JobSound, FindingsSound, PathsSound, LocalsDropped
<1>. QED
  BY <1>1, <1>2 DEF JobMove, SameWords, ReviewEnded

LEMMA MovePost ==
    ASSUME NEW k \in JobRec, JobSound(k), k.pc = "strip"
    PROVE  JobMove(k, [k EXCEPT !.pc = "post"])
<1> DEFINE r == [k EXCEPT !.pc = "post"]
<1>1. r \in JobRec /\ r.pc = "post" /\ r.text = k.text /\ r.workspace = k.workspace
  BY DEF JobRec, JobPlaces
<1>2. JobSound(r)
  BY <1>1 DEF JobSound, FindingsSound, PathsSound, LocalsDropped
<1>. QED
  BY <1>1, <1>2 DEF JobMove, SameWords, ReviewEnded

-----------------------------------------------------------------------------
(* Every step of a review is a JobMove of its record. *)
LEMMA JobMoves ==
    ASSUME Types, JobsSound, NEW j \in Jobs, JobStep(j)
    PROVE  \E r : JobMove(job[j], r) /\ job' = [job EXCEPT ![j] = r]
<1> DEFINE k == job[j]
<1>k. k \in JobRec /\ JobSound(k)
  BY DEF Types, JobsSound
<1>h. /\ FilesAt[pr.head] \in SUBSET PathSet /\ DeltaAt[k.text.head] \in SUBSET PathSet
      /\ k.text \in TextRec /\ k.diff \in SUBSET PathSet
      /\ {} \in SUBSET PathSet
  BY <1>k, PipelineAssumption DEF Types, JobRec, TextRec
<1>r. ASSUME NEW p \in ReviewEnded, Return(j, p)
      PROVE  \E r : JobMove(k, r) /\ job' = [job EXCEPT ![j] = r]
  BY <1>r, MoveReturn DEF Return
<1>1. CASE Prepare(j)
  <2>0. PICK workspace \in Workspaces, incremental \in BOOLEAN, fetched \in BOOLEAN,
             quoted \in Contexts : PrepareWith(j, workspace, incremental, fetched, quoted)
    BY <1>1 DEF Prepare
  <2>1. IF workspace = "disabled" THEN Return(j, "skipped")
        ELSE job' = [job EXCEPT ![j] = [k EXCEPT
                !.pc = "diff", !.workspace = workspace, !.force = FALSE,
                !.quoted = quoted,
                !.incremental = incremental, !.known = incremental \/ fetched,
                !.diff = IF incremental THEN DeltaAt[k.text.head]
                         ELSE IF fetched THEN FilesAt[pr.head] ELSE {}]]
    BY <2>0 DEF PrepareWith
  <2>2. CASE workspace = "disabled"
    BY <1>r, <2>1, <2>2 DEF ReviewEnded
  <2>3. CASE workspace # "disabled"
    <3>1. PICK d : d = IF incremental THEN DeltaAt[k.text.head]
                       ELSE IF fetched THEN FilesAt[pr.head] ELSE {}
      OBVIOUS
    <3>2. d \in SUBSET PathSet
      BY <1>h, <3>1
    <3>3. workspace \in {"none", "plain", "configured", "disabled"}
      BY DEF Workspaces
    <3>4. PICK n \in BOOLEAN : n = (incremental \/ fetched)
      OBVIOUS
    <3>t. quoted \in SUBSET PathSet /\ k.pc = "prepare"
      BY <1>1, PipelineAssumption DEF Prepare
    <3>5. JobMove(k, AsPrepared(k, workspace, quoted, incremental, n, d))
      BY <1>k, <3>2, <3>3, <3>t, <3>4, MovePrepare
    <3>6. job' = [job EXCEPT ![j] = AsPrepared(k, workspace, quoted, incremental, n, d)]
      BY <2>1, <2>3, <3>1, <3>4 DEF AsPrepared
    <3>. QED
      BY <3>5, <3>6
  <2>. QED
    BY <2>2, <2>3
<1>2. CASE FetchDiff(j)
  <2>1. PICK raw : raw = IF k.known THEN k.diff ELSE FilesAt[pr.head]
    OBVIOUS
  <2>2. PICK pruned : pruned = FilterPaths(raw, IgnoredOf(k))
    OBVIOUS
  <2>3. PICK ch : ch = IF k.incremental THEN pruned ELSE {}
    OBVIOUS
  <2>4. PICK p : p = IF k.incremental THEN "generate" ELSE "files"
    OBVIOUS
  <2>5. PICK d : d = CapDiff(pruned)
    OBVIOUS
  <2>6. job' = [job EXCEPT ![j] = [k EXCEPT !.diff = d, !.changed = ch,
                  !.text.head = 1, !.known = FALSE, !.incremental = FALSE, !.pc = p]]
    BY <1>2, <2>1, <2>2, <2>3, <2>4, <2>5 DEF FetchDiff
  <2>7. pruned \in SUBSET PathSet
    BY <1>h, <2>1, <2>2 DEF FilterPaths
  <2>8. d \in SUBSET pruned
    BY <2>5, CapDiffWithin
  <2>9. k.workspace = "configured" => pruned \cap Ignored = {}
    BY <2>2 DEF FilterPaths, IgnoredOf, RepoConfigOf
  <2>10. /\ d \in SUBSET PathSet /\ ch \in SUBSET PathSet /\ p \in {"generate", "files"}
         /\ k.workspace = "configured" => (d \cup ch) \cap Ignored = {}
    BY <2>3, <2>4, <2>7, <2>8, <2>9
  <2>11. k.pc = "diff"
    BY <1>2 DEF FetchDiff
  <2>12. JobMove(k, [k EXCEPT !.diff = d, !.changed = ch,
                  !.text.head = 1, !.known = FALSE, !.incremental = FALSE, !.pc = p])
    BY <1>k, <2>10, <2>11, MoveDiff
  <2>. QED
    BY <2>6, <2>12
<1>3. CASE ListChangedFiles(j)
  <2>1. PICK ch : ch = FilterPaths(FilesAt[pr.head], IgnoredOf(k))
    OBVIOUS
  <2>2. /\ ch \in SUBSET PathSet
        /\ k.workspace = "configured" => ch \cap Ignored = {}
    BY <1>h, <2>1 DEF FilterPaths, IgnoredOf, RepoConfigOf
  <2>3. k.pc = "files" /\ job' = [job EXCEPT ![j] = [k EXCEPT !.changed = ch, !.pc = "generate"]]
    BY <1>3, <2>1 DEF ListChangedFiles
  <2>. QED
    BY <1>k, <2>2, <2>3, MoveFiles
<1>4. CASE HostFails(j) \/ LlmFails(j)
  BY <1>4, <1>r DEF HostFails, LlmFails, ReviewEnded
<1>5. CASE Generate(j)
  <2>0. k.pc = "generate"
    BY <1>5 DEF Generate
  <2>1. ASSUME NEW R \in Reports,
               job' = [job EXCEPT ![j] = [k EXCEPT !.raw = R,
                  !.findings = ApplySeverityFloor(R), !.todo = ApplySeverityFloor(R),
                  !.pc = "verify", !.attempt = 1, !.quoted = {}]]
        PROVE  \E r : JobMove(k, r) /\ job' = [job EXCEPT ![j] = r]
    BY <1>k, <2>0, <2>1, MoveGenerate
  <2>2. CASE job' = [job EXCEPT ![j].attempt = k.attempt + 1]
    <3>1. k.attempt + 1 \in Nat
      BY <1>k DEF JobRec
    <3>2. job' = [job EXCEPT ![j] = [k EXCEPT !.attempt = k.attempt + 1]]
      BY <2>2
    <3>. QED
      BY <1>k, <2>0, <3>1, <3>2, MoveRetry
  <2>3. CASE Return(j, "failed")
    BY <1>r, <2>3 DEF ReviewEnded
  <2>. QED
    BY <1>5, <2>1, <2>2, <2>3 DEF Generate
<1>6. CASE SkipVerification(j)
  <2>1. k.pc = "verify" /\ job' = [job EXCEPT ![j] = Verified(k, k.findings)]
    BY <1>6 DEF SkipVerification
  <2>. QED
    BY <1>k, <2>1, MoveSkipped
<1>7. CASE VerifySimple(j)
  <2>1. k.pc = "verify" /\ ~(Agentic /\ k.workspace # "none")
    BY <1>7 DEF VerifySimple
  <2>2. PICK D \in SUBSET k.todo :
          job' = [job EXCEPT ![j] = Verified([k EXCEPT !.dropped = D], k.findings \ D)]
    BY <1>7 DEF VerifySimple
  <2>3. JobMove(k, Verified([k EXCEPT !.dropped = D], k.findings \ D))
    BY <1>k, <2>1, MoveSimple
  <2>. QED
    BY <2>2, <2>3
<1>8. CASE VerifyTurn(j)
  <2>1. k.pc = "verify" /\ Agentic /\ k.workspace # "none" /\ k.todo # {}
    BY <1>8 DEF VerifyTurn
  <2> DEFINE f == CHOOSE g \in k.todo : TRUE
  <2>3. f \in k.todo
    BY <2>1
  <2>4. \/ job' = [job EXCEPT ![j] =
                Judged([k EXCEPT !.dropped = k.dropped \cup {f}], f, TRUE)]
        \/ job' = [job EXCEPT ![j] = Judged(k, f, FALSE)]
        \/ job' = [job EXCEPT ![j] = UseTool(k)]
    BY <1>8 DEF VerifyTurn
  <2>5. JobMove(k, Judged([k EXCEPT !.dropped = k.dropped \cup {f}], f, TRUE))
    BY <1>k, <2>1, <2>3, MoveDropped
  <2>6. JobMove(k, Judged(k, f, FALSE))
    BY <1>k, <2>1, <2>3, MoveKept
  <2>7. JobMove(k, UseTool(k))
    BY <1>k, <2>1, MoveTool
  <2>. QED
    BY <2>4, <2>5, <2>6, <2>7
<1>9. CASE CheckMetadata(j)
  <2>1. PICK verdict \in Verdicts(k) :
          IF verdict \in {"fail", "body"} /\ TitlePanics(k.text)
          THEN Return(j, "panicked")
          ELSE job' = [job EXCEPT ![j] = [NoJob EXCEPT !.pc = "strip",
                  !.text = k.text, !.findings = k.findings,
                  !.blocking = MetadataBlocks(k, verdict)]]
    BY <1>9 DEF CheckMetadata
  <2>2. k.pc = "metadata"
    BY <1>9 DEF CheckMetadata
  <2>3. PICK b \in BOOLEAN : b = MetadataBlocks(k, verdict)
    BY DEF MetadataBlocks
  <2>4. JobMove(k, [NoJob EXCEPT !.pc = "strip", !.text = k.text,
                                 !.findings = k.findings, !.blocking = b])
    BY <1>k, <2>2, MoveMetadata
  <2>. QED
    BY <1>r, <2>1, <2>3, <2>4 DEF ReviewEnded
<1>10. CASE StripOverride(j)
  <2>1. k.pc = "strip" /\ job' = [job EXCEPT ![j].pc = "post"]
    BY <1>10 DEF StripOverride, Goto
  <2>2. job' = [job EXCEPT ![j] = [k EXCEPT !.pc = "post"]]
    BY <2>1
  <2>. QED
    BY <1>k, <2>1, <2>2, MovePost
<1>11. CASE PostReview(j)
  BY <1>11, <1>r DEF PostReview, ReviewEnded
<1>. QED
  BY <1>1, <1>2, <1>3, <1>4, <1>5, <1>6, <1>7, <1>8, <1>9, <1>10, <1>11
     DEF JobStep

-----------------------------------------------------------------------------
(* Every step of a command, by what it makes of the command's record.      *)

(* outstanding_findings sees the bot's objection whenever there is one,    *)
(* whoever else has reviewed since.                                        *)
LEMMA LatestObjects ==
    ASSUME reviews \in Seq(ReviewRec), BotObjects
    PROVE  Latest(reviews) = "REQUEST_CHANGES"
<1> DEFINE mine == {i \in 1..Len(reviews) : ByBot(reviews[i])}
           m == CHOOSE i \in mine : \A k \in mine : k <= i
<1>0. Len(reviews) \in Nat
  OBVIOUS
<1>1. PICK i \in 1..Len(reviews) :
        /\ ByBot(reviews[i]) /\ reviews[i].event = "REQUEST_CHANGES"
        /\ \A k \in i + 1..Len(reviews) : ~ByBot(reviews[k])
  BY DEF BotObjects
<1>2. i \in mine /\ \A k \in mine : k <= i
  BY <1>0, <1>1
<1>3. m \in mine /\ \A k \in mine : k <= m
  BY <1>2
<1>4. m = i
  BY <1>0, <1>2, <1>3
<1>5. Latest(reviews) = reviews[m].event
  BY <1>2 DEF Latest
<1>. QED
  BY <1>1, <1>4, <1>5

LEMMA EndedChat ==
    ASSUME NEW p \in ChatPlaces \ (HoldsText \cup {"directed", "approval"}), NEW n \in Nat
    PROVE  LET r == [NoChat EXCEPT !.pc = p, !.replies = n]
           IN  r \in ChatRec /\ ChatSound(r) /\ r.pc = p
<1> DEFINE r == [NoChat EXCEPT !.pc = p, !.replies = n]
<1>1. r \in ChatRec /\ r.pc = p
  BY NoChatType DEF ChatRec
<1>2. ChatSound(r)
  BY <1>1 DEF ChatSound, HoldsText
<1>. QED
  BY <1>1, <1>2

LEMMA MentionedChat ==
    ASSUME NEW p \in Commands
    PROVE  LET r == [NoChat EXCEPT !.pc = p]
           IN  r \in ChatRec /\ ChatSound(r) /\ r.pc \notin HoldsText
<1> DEFINE r == [NoChat EXCEPT !.pc = p]
<1>1. r \in ChatRec /\ r.pc = p /\ ~r.over /\ ~r.blocked
  BY NoChatType DEF ChatRec, ChatPlaces, NoChat
<1>2. ChatSound(r)
  BY <1>1 DEF ChatSound, Commands
<1>. QED
  BY <1>1, <1>2 DEF Commands, HoldsText

LEMMA SteppedChat ==
    ASSUME NEW k \in ChatRec, NEW p \in ChatPlaces
    PROVE  LET r == [k EXCEPT !.pc = p]
           IN  /\ r \in ChatRec /\ r.pc = p /\ r.text = k.text /\ r.over = k.over
               /\ r.blocked = k.blocked /\ r.authorised = k.authorised
BY DEF ChatRec

(* The record r of a command after a step from k: it holds no text, or the *)
(* text it held, or the one just read.                                     *)
ChatMove(k, r) ==
    /\ r \in ChatRec /\ ChatSound(r)
    /\ r.pc \in HoldsText =>
          \/ k.pc \in HoldsText /\ r.text = k.text
          \/ k.pc = "approval" /\ SameWords(r.text, pr)
    /\ r.pc = "stamp" =>
          k.authorised /\ reviews' = Append(reviews, OverrideReview(k))

LEMMA MovePlain ==
    ASSUME NEW k \in ChatRec, NEW p \in {"reply", "patches", "note", "refuse"},
           p \in {"note", "refuse"} => k.pc \in HoldsText
    PROVE  ChatMove(k, [k EXCEPT !.pc = p])
<1> DEFINE r == [k EXCEPT !.pc = p]
<1>1. p \in ChatPlaces
  BY DEF ChatPlaces
<1>2. r \in ChatRec /\ r.pc = p /\ r.text = k.text
  BY <1>1, SteppedChat
<1> HIDE DEF r
<1>3. ChatSound(r)
  BY <1>2 DEF ChatSound
<1>. QED
  BY <1>2, <1>3 DEF ChatMove, HoldsText, r

LEMMA ChatMoves ==
    ASSUME Types, ChatsSound, NEW c \in Chats, Mention(c) \/ ChatStep(c)
    PROVE  \E r : ChatMove(chat[c], r) /\ chat' = [chat EXCEPT ![c] = r]
<1> DEFINE k == chat[c]
           Goal == \E r : ChatMove(k, r) /\ chat' = [chat EXCEPT ![c] = r]
<1>k. k \in ChatRec /\ ChatSound(k) /\ k.replies \in Nat /\ k.replies + 1 \in Nat
  BY DEF Types, ChatsSound, ChatRec
<1>e. ASSUME NEW p \in {"answered", "failed"}, NEW n \in Nat, End(c, p, n) PROVE Goal
  <2>1. p \in ChatPlaces \ (HoldsText \cup {"directed", "approval"})
    BY DEF ChatPlaces, HoldsText
  <2>2. ChatMove(k, [NoChat EXCEPT !.pc = p, !.replies = n])
    BY <2>1, EndedChat DEF ChatMove, HoldsText
  <2>. QED
    BY <1>e, <2>2 DEF End, Become
<1>y. Reply(c) => Goal
  BY <1>e, <1>k DEF Reply
<1>1. CASE Mention(c)
  <2>1. PICK cmd \in Commands : chat' = [chat EXCEPT ![c] = [NoChat EXCEPT !.pc = cmd]]
    BY <1>1 DEF Mention, Become
  <2>2. ChatMove(k, [NoChat EXCEPT !.pc = cmd])
    BY MentionedChat DEF ChatMove, HoldsText
  <2>. QED
    BY <2>1, <2>2
<1>2. CASE Help(c) \/ ReplyQueued(c) \/ Refuse(c)
  BY <1>2, <1>y DEF Help, ReplyQueued, Refuse
<1>3. CASE ClassifyIntent(c)
  <2>1. PICK i \in {"question", "re_review", "approval"} :
          k.pc = "directed" /\ chat' = [chat EXCEPT ![c].pc = i]
    BY <1>3 DEF ClassifyIntent, Step, Intents
  <2>2. chat' = [chat EXCEPT ![c] = [k EXCEPT !.pc = i]]
    BY <2>1
  <2>3. i \in ChatPlaces
    BY DEF ChatPlaces, Commands
  <2>4. ChatMove(k, [k EXCEPT !.pc = i])
    BY <1>k, <2>1, <2>3, SteppedChat DEF ChatMove, ChatSound, HoldsText
  <2>. QED
    BY <2>2, <2>4
<1>4. CASE HandleReReview(c)
  <2>1. Reply(c) \/ End(c, "failed", 0) \/ chat' = [chat EXCEPT ![c].pc = "reply"]
    BY <1>4 DEF HandleReReview, Step
  <2>2. CASE chat' = [chat EXCEPT ![c].pc = "reply"]
    <3>1. chat' = [chat EXCEPT ![c] = [k EXCEPT !.pc = "reply"]]
      BY <2>2
    <3>2. ChatMove(k, [k EXCEPT !.pc = "reply"])
      BY <1>k, MovePlain
    <3>. QED
      BY <3>1, <3>2
  <2>. QED
    BY <1>e, <1>y, <2>1, <2>2
<1>5. CASE HandleSuggest(c)
  <2>1. \/ Reply(c) \/ End(c, "failed", 0)
        \/ chat' = [chat EXCEPT ![c] = [k EXCEPT !.pc = "patches"]]
    BY <1>5 DEF HandleSuggest, Become
  <2>2. ChatMove(k, [k EXCEPT !.pc = "patches"])
    BY <1>k, MovePlain
  <2>. QED
    BY <1>e, <1>y, <2>1, <2>2
<1>6. CASE PostSuggestions(c)
  <2>1. Reply(c) \/ End(c, "answered", k.replies + 1) \/ End(c, "failed", 0)
    BY <1>6 DEF PostSuggestions
  <2>. QED
    BY <1>e, <1>k, <1>y, <2>1
<1>7. CASE HandleTestScaffolds(c) \/ HandleFreeform(c)
  BY <1>7, <1>e, <1>y DEF HandleTestScaffolds, HandleFreeform
<1>8. CASE ReadForApproval(c)
  <2> DEFINE t == [pr EXCEPT !.head = 1]
             r == [k EXCEPT !.pc = "findings", !.text = t]
  <2>1. \/ Reply(c) \/ End(c, "failed", 0)
        \/ chat' = [chat EXCEPT ![c] = r]
    BY <1>8 DEF ReadForApproval, Become, Snapshot
  <2>2. 1 \in 1..MaxHead
    BY PullRequestAssumption
  <2>3. t \in TextRec /\ SameWords(t, pr)
    BY <2>2 DEF Types, TextRec, SameWords
  <2>4. k.pc = "approval"
    BY <1>8 DEF ReadForApproval
  <2>5. /\ r \in ChatRec /\ r.pc = "findings" /\ r.text = t
        /\ r.over = k.over /\ r.blocked = k.blocked
    <3> HIDE DEF t
    <3>. QED
      BY <1>k, <2>3 DEF ChatRec, ChatPlaces
  <2>6. ChatMove(k, r)
    <3> HIDE DEF r, t
    <3>. QED
      BY <1>k, <2>3, <2>4, <2>5 DEF ChatMove, ChatSound, HoldsText
  <2>. QED
    BY <1>e, <1>y, <2>1, <2>6
<1>9. CASE OutstandingFindings(c)
  <2>1. k.pc = "findings"
    BY <1>9 DEF OutstandingFindings
  <2>2. PICK o \in BOOLEAN, b \in BOOLEAN :
          o = BotObjects /\ b = (Latest(reviews) = "REQUEST_CHANGES")
    BY DEF BotObjects
  <2>3. o => b
    BY <2>2, LatestObjects DEF Types
  <2> DEFINE p == IF b THEN "authorise" ELSE "remember"
             r == [k EXCEPT !.over = o, !.blocked = b, !.pc = p]
             q == [k EXCEPT !.pc = "remember"]
  <2>4. chat' = [chat EXCEPT ![c] = r] \/ chat' = [chat EXCEPT ![c] = q]
    BY <1>9, <2>2 DEF OutstandingFindings, Become
  <2>5. /\ r \in ChatRec /\ r.pc = p /\ r.text = k.text
        /\ r.over = o /\ r.blocked = b
    BY <1>k DEF ChatRec, ChatPlaces
  <2>6. ChatMove(k, r)
    <3> HIDE DEF r
    <3>. QED
      BY <2>1, <2>3, <2>5 DEF ChatMove, ChatSound, HoldsText
  <2>7. ChatMove(k, q)
    <3>1. /\ q \in ChatRec /\ q.pc = "remember" /\ q.text = k.text
          /\ q.over = k.over /\ q.blocked = k.blocked
      BY <1>k DEF ChatRec, ChatPlaces
    <3> HIDE DEF q
    <3>. QED
      BY <1>k, <2>1, <3>1 DEF ChatMove, ChatSound, HoldsText
  <2>. QED
    BY <2>4, <2>6, <2>7
<1>10. CASE AuthoriseOverride(c)
  <2> DEFINE q == [k EXCEPT !.pc = "note"]
             r == [k EXCEPT !.pc = "remember", !.authorised = TRUE]
  <2>1. Reply(c) \/ chat' = [chat EXCEPT ![c] = q] \/ chat' = [chat EXCEPT ![c] = r]
    BY <1>10 DEF AuthoriseOverride, Become
  <2>2. k.pc = "authorise"
    BY <1>10 DEF AuthoriseOverride
  <2>3. ChatMove(k, q)
    BY <1>k, <2>2, MovePlain DEF HoldsText
  <2>4. r \in ChatRec /\ r.pc = "remember" /\ r.text = k.text /\ r.authorised
    BY <1>k DEF ChatRec, ChatPlaces
  <2>5. ChatMove(k, r)
    <3> HIDE DEF r
    <3>. QED
      BY <2>2, <2>4 DEF ChatMove, ChatSound, HoldsText
  <2>. QED
    BY <1>y, <2>1, <2>3, <2>5
<1>11. CASE RememberCorrection(c)
  <2> DEFINE q == [k EXCEPT !.pc = "refuse"]
             r == [k EXCEPT !.pc = "approve"]
  <2>1. \/ End(c, "failed", 0)
        \/ k.pc = "note" /\ chat' = [chat EXCEPT ![c] = q]
        \/ k.pc = "remember" /\ chat' = [chat EXCEPT ![c] = r]
    BY <1>11 DEF RememberCorrection, Become
  <2>2. k.pc = "note" => ChatMove(k, q)
    BY <1>k, MovePlain DEF HoldsText
  <2>3. k.pc = "remember" => ChatMove(k, r)
    <3>1. /\ r \in ChatRec /\ r.pc = "approve" /\ r.text = k.text /\ r.over = k.over
          /\ r.blocked = k.blocked /\ r.authorised = k.authorised
      BY <1>k, SteppedChat DEF ChatPlaces
    <3> HIDE DEF r
    <3>. QED
      BY <1>k, <3>1 DEF ChatMove, ChatSound, HoldsText
  <2>. QED
    BY <1>e, <2>1, <2>2, <2>3
<1>12. CASE Approve(c)
  <2> DEFINE r == [k EXCEPT !.pc = "stamp", !.replies = k.replies + 1]
  <2>1. \/ End(c, "failed", 0) \/ End(c, "answered", k.replies + 1)
        \/ /\ k.blocked /\ chat' = [chat EXCEPT ![c] = r]
           /\ reviews' = Append(reviews, OverrideReview(k))
    BY <1>12 DEF Approve, Become, CreateReview
  <2>2. k.pc = "approve"
    BY <1>12 DEF Approve
  <2>3. r \in ChatRec /\ r.pc = "stamp" /\ r.text = k.text
    BY <1>k DEF ChatRec, ChatPlaces
  <2>4. k.blocked /\ reviews' = Append(reviews, OverrideReview(k)) => ChatMove(k, r)
    <3> HIDE DEF r
    <3>. QED
      BY <1>k, <2>2, <2>3 DEF ChatMove, ChatSound, HoldsText
  <2>. QED
    BY <1>e, <1>k, <2>1, <2>4
<1>13. CASE StampOverride(c)
  BY <1>13, <1>e, <1>k DEF StampOverride
<1>. QED
  BY <1>1, <1>2, <1>3, <1>4, <1>5, <1>6, <1>7, <1>8, <1>9, <1>10, <1>11,
     <1>12, <1>13 DEF ChatStep

-----------------------------------------------------------------------------
(* The reviews only grow, and by one review the bot makes.                 *)

PipelineReview(k) ==
    [Review("pipeline", ReviewEvent(k)) EXCEPT !.errors = ErrorComments(k.findings)]

LEMMA ReviewTypes ==
    /\ \A k \in JobRec : /\ PipelineReview(k) \in ReviewRec
                          /\ ~PipelineReview(k).over
    /\ Review("suggest", "COMMENT") \in ReviewRec
    /\ ~Review("suggest", "COMMENT").over
    /\ \A k \in ChatRec : LET r == OverrideReview(k)
                           IN  /\ r \in ReviewRec /\ r.by = "chat"
                               /\ r.over = k.over /\ r.authorised = k.authorised
<1>1. ASSUME NEW k \in JobRec
      PROVE  PipelineReview(k) \in ReviewRec /\ ~PipelineReview(k).over
  <2>1. PICK e : e = ErrorComments(k.findings)
    OBVIOUS
  <2>2. e \in SUBSET {f.message : f \in Findings}
    BY <2>1 DEF ErrorComments, JobRec
  <2>3. PICK v \in {"REQUEST_CHANGES", "APPROVED"} : v = ReviewEvent(k)
    BY DEF ReviewEvent
  <2>4. PipelineReview(k) = [Review("pipeline", v) EXCEPT !.errors = e]
    BY <2>1, <2>3 DEF PipelineReview
  <2>. QED
    BY <2>2, <2>4 DEF Review, ReviewRec
<1>2. Review("suggest", "COMMENT") \in ReviewRec /\ ~Review("suggest", "COMMENT").over
  BY DEF Review, ReviewRec
<1>3. ASSUME NEW k \in ChatRec
      PROVE  LET r == OverrideReview(k)
             IN  /\ r \in ReviewRec /\ r.by = "chat"
                 /\ r.over = k.over /\ r.authorised = k.authorised
  BY DEF OverrideReview, Review, ReviewRec, ChatRec
<1>. QED
  BY <1>1, <1>2, <1>3

LEMMA ReviewsGrow ==
    ASSUME Types, ChatsSound, [Next]_vars
    PROVE  \/ reviews' = reviews
           \/ \E r \in ReviewRec :
                 /\ reviews' = Append(reviews, r)
                 /\ r.by = "chat" /\ r.over => r.authorised
<1>1. ASSUME NEW j \in Jobs, JobStep(j)
      PROVE  reviews' = reviews \/ reviews' = Append(reviews, PipelineReview(job[j]))
  BY <1>1 DEF JobStep, Prepare, FetchDiff, ListChangedFiles, HostFails, Generate,
              LlmFails, SkipVerification, VerifySimple, VerifyTurn, CheckMetadata,
              StripOverride, PostReview, CreateReview, PipelineReview, prVars
<1>2. ASSUME NEW c \in Chats, Mention(c) \/ ChatStep(c)
      PROVE  \/ reviews' = reviews
             \/ reviews' = Append(reviews, Review("suggest", "COMMENT"))
             \/ chat[c].pc = "approve" /\ reviews' = Append(reviews, OverrideReview(chat[c]))
  BY <1>2 DEF Mention, ChatStep, Help, HandleReReview, ReplyQueued, HandleSuggest,
              PostSuggestions, HandleTestScaffolds, HandleFreeform, ReadForApproval,
              OutstandingFindings, AuthoriseOverride, RememberCorrection, Refuse,
              Approve, StampOverride, CreateReview, prVars
<1>3. ASSUME NEW c \in Chats, chat[c].pc = "approve"
      PROVE  LET r == OverrideReview(chat[c])
             IN  r \in ReviewRec /\ (r.by = "chat" /\ r.over => r.authorised)
  BY <1>3, ReviewTypes DEF Types, ChatsSound, ChatSound
<1>4. ASSUME NEW j \in Jobs
      PROVE  LET r == PipelineReview(job[j])
             IN  r \in ReviewRec /\ (r.by = "chat" /\ r.over => r.authorised)
  BY ReviewTypes DEF Types
<1>5. LET r == Review("suggest", "COMMENT")
      IN  r \in ReviewRec /\ (r.by = "chat" /\ r.over => r.authorised)
  BY ReviewTypes
<1>6. People \/ UNCHANGED vars \/ (\E j \in Jobs : CiReview(j)) => reviews' = reviews
  BY DEF People, Push, Edit, CiReview, vars, prVars
<1>7. ASSUME NEW r \in ReviewRec, r.by = "chat" /\ r.over => r.authorised,
             reviews' = Append(reviews, r)
      PROVE  \E q \in ReviewRec : /\ reviews' = Append(reviews, q)
                                  /\ q.by = "chat" /\ q.over => q.authorised
  BY <1>7
<1>8. CASE \E j \in Jobs : JobStep(j)
  BY <1>1, <1>4, <1>7, <1>8
<1>9. CASE \E c \in Chats : Mention(c) \/ ChatStep(c)
  BY <1>2, <1>3, <1>5, <1>7, <1>9
<1>. QED
  BY <1>6, <1>8, <1>9 DEF Next

(* What a longer list of reviews says about overrides. *)
LEMMA AppendedReviews ==
    ASSUME reviews \in Seq(ReviewRec), NEW r \in ReviewRec,
           reviews' = Append(reviews, r)
    PROVE  /\ reviews' \in Seq(ReviewRec) /\ Len(reviews') = Len(reviews) + 1
           /\ reviews'[Len(reviews) + 1] = r
           /\ \A i \in 1..Len(reviews) : reviews'[i] = reviews[i]
           /\ Overridden => Overridden'
           /\ r.by = "chat" /\ r.authorised => Overridden'
<1>1. /\ reviews' \in Seq(ReviewRec) /\ Len(reviews') = Len(reviews) + 1
      /\ reviews'[Len(reviews) + 1] = r
      /\ \A i \in 1..Len(reviews) : reviews'[i] = reviews[i]
      /\ Len(reviews) \in Nat
  OBVIOUS
<1>2. \A i \in 1..Len(reviews) : i \in 1..Len(reviews')
  BY <1>1
<1>3. Len(reviews) + 1 \in 1..Len(reviews')
  BY <1>1
<1>. QED
  BY <1>1, <1>2, <1>3 DEF Overridden

LEMMA NextReviews ==
    ASSUME Types, ChatsSound, [Next]_vars
    PROVE  /\ reviews' \in Seq(ReviewRec)
           /\ Overridden => Overridden'
           /\ ApprovalIsEarned => ApprovalIsEarned'
<1>1. CASE reviews' = reviews
  BY <1>1 DEF Types, Overridden, ApprovalIsEarned
<1>2. ASSUME NEW r \in ReviewRec, reviews' = Append(reviews, r),
             r.by = "chat" /\ r.over => r.authorised
      PROVE  /\ reviews' \in Seq(ReviewRec)
             /\ Overridden => Overridden'
             /\ ApprovalIsEarned => ApprovalIsEarned'
  <2>0. Len(reviews) \in Nat
    BY DEF Types
  <2>1. /\ reviews' \in Seq(ReviewRec) /\ Len(reviews') = Len(reviews) + 1
        /\ reviews'[Len(reviews) + 1] = r
        /\ \A i \in 1..Len(reviews) : reviews'[i] = reviews[i]
        /\ Overridden => Overridden'
    BY <1>2, AppendedReviews DEF Types
  <2>2. \A i \in 1..Len(reviews') : i \in 1..Len(reviews) \/ i = Len(reviews) + 1
    BY <2>0, <2>1
  <2>. QED
    BY <1>2, <2>1, <2>2 DEF ApprovalIsEarned
<1>. QED
  BY <1>1, <1>2, ReviewsGrow

-----------------------------------------------------------------------------
(* Where the texts come from that jobs and commands hold after a step.     *)

JobTextsFrom ==
    \A i \in Jobs : job'[i].pc \notin ReviewEnded =>
        \/ job[i].pc \notin ReviewEnded /\ SameWords(job'[i].text, job[i].text)
        \/ SameWords(job'[i].text, pr)

LEMMA ReplacedJob ==
    ASSUME Types, JobsSound, NEW j \in Jobs, NEW r \in JobRec, JobSound(r),
           job' = [job EXCEPT ![j] = r],
           \/ r.pc \in ReviewEnded
           \/ job[j].pc \notin ReviewEnded /\ SameWords(r.text, job[j].text)
           \/ SameWords(r.text, pr)
    PROVE  job' \in [Jobs -> JobRec] /\ JobsSound' /\ JobTextsFrom
<1>1. job \in [Jobs -> JobRec]
  BY DEF Types
<1>2. job' \in [Jobs -> JobRec] /\ job'[j] = r /\ \A i \in Jobs \ {j} : job'[i] = job[i]
  BY <1>1
<1>3. \A i \in Jobs : SameWords(job[i].text, job[i].text)
  BY DEF SameWords
<1>. QED
  BY <1>2, <1>3 DEF JobsSound, JobTextsFrom

LEMMA NextJobs ==
    ASSUME Types, JobsSound, [Next]_vars
    PROVE  job' \in [Jobs -> JobRec] /\ JobsSound' /\ JobTextsFrom
<1> DEFINE Goal == job' \in [Jobs -> JobRec] /\ JobsSound' /\ JobTextsFrom
<1>1. ASSUME job' = job PROVE Goal
  <2>1. \A i \in Jobs : SameWords(job[i].text, job[i].text)
    BY DEF SameWords
  <2>. QED
    BY <1>1, <2>1 DEF Types, JobsSound, JobTextsFrom
<1>2. ASSUME NEW j \in Jobs, JobStep(j) PROVE Goal
  <2>1. PICK r : JobMove(job[j], r) /\ job' = [job EXCEPT ![j] = r]
    BY <1>2, JobMoves
  <2>. QED
    BY <2>1, ReplacedJob DEF JobMove
<1>3. ASSUME NEW j \in Jobs, NEW f \in BOOLEAN, Enqueue(j, Snapshot, f) PROVE Goal
  <2>1. PICK p \in {"skipped", "prepare"} :
          job' = [job EXCEPT ![j] = [NoJob EXCEPT !.text = pr, !.force = f, !.pc = p]]
    BY <1>3 DEF Enqueue, Snapshot
  <2>2. PICK r : r = [NoJob EXCEPT !.text = pr, !.force = f, !.pc = p]
    OBVIOUS
  <2>3. r \in JobRec /\ r.text = pr /\ JobSound(r)
    BY <2>2, QueuedJob DEF Types
  <2>4. SameWords(r.text, pr)
    BY <2>3 DEF SameWords
  <2>. QED
    BY <2>1, <2>2, <2>3, <2>4, ReplacedJob
<1>4. ASSUME NEW c \in Chats, Mention(c) \/ ChatStep(c) PROVE Goal
  <2>1. c \in Jobs
    BY ChatAssumption
  <2>2. job' = job \/ Enqueue(c, Snapshot, TRUE)
    BY <1>4 DEF Mention, ChatStep, Help, HandleReReview, ReplyQueued, HandleSuggest,
              PostSuggestions, HandleTestScaffolds, HandleFreeform, ReadForApproval,
              OutstandingFindings, AuthoriseOverride, RememberCorrection, Refuse,
              Approve, StampOverride
  <2>. QED
    BY <1>1, <1>3, <2>1, <2>2
<1>5. People \/ UNCHANGED vars => job' = job
  BY DEF People, vars
<1>6. ASSUME NEW j \in Jobs, CiReview(j) PROVE Goal
  BY <1>3, <1>6 DEF CiReview
<1>. QED
  BY <1>1, <1>2, <1>4, <1>5, <1>6 DEF Next

ChatTextsFrom ==
    \A i \in Chats :
        /\ chat'[i].pc \in HoldsText =>
              \/ chat[i].pc \in HoldsText /\ SameWords(chat'[i].text, chat[i].text)
              \/ SameWords(chat'[i].text, pr)
        /\ chat'[i].pc = "stamp" =>
              \/ chat[i].pc = "stamp"
              \/ /\ chat[i].authorised
                 /\ reviews' = Append(reviews, OverrideReview(chat[i]))

LEMMA NextChats ==
    ASSUME Types, ChatsSound, [Next]_vars
    PROVE  chat' \in [Chats -> ChatRec] /\ ChatsSound' /\ ChatTextsFrom
<1>0. \A i \in Chats : SameWords(chat[i].text, chat[i].text)
  BY DEF SameWords
<1>1. CASE chat' = chat
  BY <1>0, <1>1 DEF Types, ChatsSound, ChatTextsFrom
<1>2. ASSUME NEW c \in Chats, Mention(c) \/ ChatStep(c)
      PROVE  chat' \in [Chats -> ChatRec] /\ ChatsSound' /\ ChatTextsFrom
  <2>1. PICK r : ChatMove(chat[c], r) /\ chat' = [chat EXCEPT ![c] = r]
    BY <1>2, ChatMoves
  <2>2. r \in ChatRec /\ ChatSound(r)
    BY <2>1 DEF ChatMove
  <2>3. /\ chat' \in [Chats -> ChatRec] /\ chat'[c] = r
        /\ \A i \in Chats \ {c} : chat'[i] = chat[i]
    BY <2>1, <2>2 DEF Types
  <2>4. SameWords(chat[c].text, chat[c].text)
    BY <1>0
  <2>. QED
    BY <1>0, <2>1, <2>2, <2>3, <2>4 DEF ChatMove, ChatsSound, ChatTextsFrom
<1>. QED
  BY <1>1, <1>2 DEF Next, People, vars

-----------------------------------------------------------------------------
(* The text of the pull request.                                           *)

LEMMA VersionsGrow ==
    ASSUME [Next]_vars
    PROVE  versions \subseteq versions'
<1>1. ASSUME NEW j \in Jobs, JobStep(j) PROVE versions' = versions
  BY <1>1 DEF JobStep, Prepare, FetchDiff, ListChangedFiles, HostFails, Generate,
              LlmFails, SkipVerification, VerifySimple, VerifyTurn, CheckMetadata,
              StripOverride, PostReview, prVars
<1>2. ASSUME NEW c \in Chats, Mention(c) \/ ChatStep(c) PROVE versions' = versions
  BY <1>2 DEF Mention, ChatStep, Help, HandleReReview, ReplyQueued, HandleSuggest,
              PostSuggestions, HandleTestScaffolds, HandleFreeform, ReadForApproval,
              OutstandingFindings, AuthoriseOverride, RememberCorrection, Refuse,
              Approve, StampOverride, prVars
<1>. QED
  BY <1>1, <1>2 DEF Next, People, Push, Edit, CiReview, vars, prVars

(* A text that may be written back may still be after any step, and so may *)
(* one with the same words and marker.                                     *)
LEMMA WritableStays ==
    ASSUME Types, ChatsSound, [Next]_vars, NEW t, Writable(t), NEW u, SameWords(u, t)
    PROVE  Writable(u)'
BY VersionsGrow, NextReviews DEF Writable, SameWords

LEMMA NextText ==
    ASSUME Types, JobsSound, ChatsSound, TextsSound, [Next]_vars
    PROVE  pr' \in TextRec /\ Writable(pr)'
<1> DEFINE Goal == pr' \in TextRec /\ Writable(pr)'
<1>0. pr \in TextRec /\ Writable(pr)
  BY DEF Types, TextsSound
<1>s. ASSUME NEW t, t = pr', t \in TextRec, SameWords(t, pr) PROVE Goal
  <2>1. PICK u : u = pr
    OBVIOUS
  <2>2. Writable(u) /\ SameWords(t, u)
    BY <1>0, <1>s, <2>1
  <2>3. Writable(t)'
    BY <2>2, WritableStays
  <2>. QED
    BY <1>s, <2>3
<1>1. ASSUME pr' = pr PROVE Goal
  BY <1>0, <1>1, <1>s DEF SameWords
<1>2. CASE Push
  <2>1. pr.head + 1 \in 1..MaxHead
    BY <1>0, <1>2, PullRequestAssumption DEF Push, TextRec
  <2>2. pr' = [pr EXCEPT !.head = pr.head + 1]
    BY <1>2 DEF Push
  <2>3. pr' \in TextRec /\ SameWords(pr', pr)
    BY <1>0, <2>1, <2>2 DEF TextRec, SameWords
  <2>. QED
    BY <1>s, <2>3
<1>3. CASE Edit
  <2>1. PICK t \in Texts : /\ pr' = [pr EXCEPT !.title = t[1], !.body = t[2]]
                           /\ versions' = versions \cup {t}
    BY <1>3 DEF Edit
  <2>2. t[1] \in Titles /\ t[2] \in Bodies /\ t = <<t[1], t[2]>>
    BY PullRequestAssumption DEF Titles, Bodies
  <2>3. /\ pr' \in TextRec /\ pr'.title = t[1] /\ pr'.body = t[2]
        /\ pr'.marked = pr.marked /\ pr'.section = pr.section
    BY <1>0, <2>1, <2>2 DEF TextRec
  <2>4. Overridden => Overridden'
    BY NextReviews
  <2>. QED
    BY <1>0, <2>1, <2>2, <2>3, <2>4 DEF Writable
<1>4. ASSUME NEW t \in TextRec, Writable(t), NEW m \in BOOLEAN, m => Overridden,
             pr' = [pr EXCEPT !.title = t.title, !.marked = m,
                              !.body = t.body, !.section = m]
      PROVE  Goal
  <2>1. /\ t.title \in Titles /\ t.body \in Bodies
    BY DEF TextRec
  <2>2. /\ pr' \in TextRec /\ pr'.title = t.title /\ pr'.body = t.body
        /\ pr'.marked = m /\ pr'.section = m
    BY <1>0, <1>4, <2>1 DEF TextRec
  <2>3. Overridden => Overridden'
    BY NextReviews
  <2>4. versions \subseteq versions'
    BY VersionsGrow
  <2>. QED
    BY <1>4, <2>2, <2>3, <2>4 DEF Writable
<1>5. ASSUME NEW j \in Jobs, StripOverride(j) PROVE Goal
  <2>1. pr' = pr \/ UpdatePullRequest(StripMarker(job[j].text))
    BY <1>5 DEF StripOverride
  <2>2. PICK t : t = job[j].text
    OBVIOUS
  <2>3. t \in TextRec /\ Writable(t)
    BY <1>5, <2>2 DEF StripOverride, Types, TextsSound, JobRec, ReviewEnded
  <2>4. CASE UpdatePullRequest(StripMarker(t))
    <3>1. /\ StripMarker(t).title = t.title /\ StripMarker(t).body = t.body
          /\ StripMarker(t).marked = FALSE /\ StripMarker(t).section = FALSE
      BY <2>3 DEF StripMarker, TextRec
    <3>2. pr' = [pr EXCEPT !.title = t.title, !.marked = FALSE,
                           !.body = t.body, !.section = FALSE]
      BY <2>4, <3>1 DEF UpdatePullRequest
    <3>. QED
      BY <1>4, <2>3, <3>2
  <2>. QED
    BY <1>1, <2>1, <2>2, <2>4
<1>6. ASSUME NEW c \in Chats, StampOverride(c) PROVE Goal
  <2>1. pr' = pr \/ UpdatePullRequest(ApplyMarker(chat[c].text))
    BY <1>6 DEF StampOverride
  <2>2. PICK t : t = chat[c].text
    OBVIOUS
  <2>3. t \in TextRec /\ Writable(t) /\ Overridden
    BY <1>6, <2>2 DEF StampOverride, Types, TextsSound, ChatRec, HoldsText
  <2>4. CASE UpdatePullRequest(ApplyMarker(t))
    <3>1. /\ ApplyMarker(t).title = t.title /\ ApplyMarker(t).body = t.body
          /\ ApplyMarker(t).marked = TRUE /\ ApplyMarker(t).section = TRUE
      BY <2>3 DEF ApplyMarker, TextRec
    <3>2. pr' = [pr EXCEPT !.title = t.title, !.marked = TRUE,
                           !.body = t.body, !.section = TRUE]
      BY <2>4, <3>1 DEF UpdatePullRequest
    <3>. QED
      BY <1>4, <2>3, <3>2
  <2>. QED
    BY <1>1, <2>1, <2>2, <2>4
<1>7. ASSUME NEW j \in Jobs, JobStep(j), ~StripOverride(j) PROVE pr' = pr
  BY <1>7 DEF JobStep, Prepare, FetchDiff, ListChangedFiles, HostFails, Generate,
              LlmFails, SkipVerification, VerifySimple, VerifyTurn, CheckMetadata,
              PostReview, prVars
<1>8. ASSUME NEW c \in Chats, Mention(c) \/ ChatStep(c), ~StampOverride(c) PROVE pr' = pr
  BY <1>8 DEF Mention, ChatStep, Help, HandleReReview, ReplyQueued, HandleSuggest,
              PostSuggestions, HandleTestScaffolds, HandleFreeform, ReadForApproval,
              OutstandingFindings, AuthoriseOverride, RememberCorrection, Refuse,
              Approve, prVars
<1>9. (\E j \in Jobs : CiReview(j)) \/ UNCHANGED vars => pr' = pr
  BY DEF CiReview, vars, prVars
<1>. QED
  BY <1>1, <1>2, <1>3, <1>5, <1>6, <1>7, <1>8, <1>9 DEF Next, People

LEMMA NextTexts ==
    ASSUME Types, JobsSound, ChatsSound, TextsSound, [Next]_vars
    PROVE  TextsSound'
<1>1. Writable(pr)'
  BY NextText
<1>2. ASSUME NEW u, SameWords(u, pr) PROVE Writable(u)'
  <2>1. PICK t : t = pr
    OBVIOUS
  <2>. QED
    BY <1>2, <2>1, WritableStays DEF TextsSound
<1>3. ASSUME NEW i \in Jobs, job'[i].pc \notin ReviewEnded
      PROVE  Writable(job[i].text)'
  <2>1. PICK u : u = job'[i].text
    OBVIOUS
  <2>2. PICK t : t = job[i].text
    OBVIOUS
  <2>3. \/ job[i].pc \notin ReviewEnded /\ SameWords(u, t)
        \/ SameWords(u, pr)
    BY <1>3, <2>1, <2>2, NextJobs DEF JobTextsFrom
  <2>4. ASSUME job[i].pc \notin ReviewEnded, SameWords(u, t) PROVE Writable(u)'
    <3>1. Writable(job[i].text)
      BY <2>4 DEF TextsSound
    <3>2. Writable(t)
      BY <2>2, <3>1
    <3>. QED
      BY <2>4, <3>2, WritableStays
  <2>5. Writable(u)'
    BY <1>2, <2>3, <2>4
  <2>. QED
    BY <2>1, <2>5
<1>4. ASSUME NEW i \in Chats, chat'[i].pc \in HoldsText
      PROVE  Writable(chat[i].text)'
  <2>1. PICK u : u = chat'[i].text
    OBVIOUS
  <2>2. PICK t : t = chat[i].text
    OBVIOUS
  <2>3. \/ chat[i].pc \in HoldsText /\ SameWords(u, t)
        \/ SameWords(u, pr)
    BY <1>4, <2>1, <2>2, NextChats DEF ChatTextsFrom
  <2>4. ASSUME chat[i].pc \in HoldsText, SameWords(u, t) PROVE Writable(u)'
    <3>1. Writable(chat[i].text)
      BY <2>4 DEF TextsSound
    <3>2. Writable(t)
      BY <2>2, <3>1
    <3>. QED
      BY <2>4, <3>2, WritableStays
  <2>5. Writable(u)'
    BY <1>2, <2>3, <2>4
  <2>. QED
    BY <2>1, <2>5
<1>5. ASSUME NEW i \in Chats, chat'[i].pc = "stamp" PROVE Overridden'
  <2>1. CASE chat[i].pc = "stamp"
    BY <2>1, NextReviews DEF TextsSound
  <2>2. CASE chat[i].authorised /\ reviews' = Append(reviews, OverrideReview(chat[i]))
    <3>1. PICK r : r = OverrideReview(chat[i])
      OBVIOUS
    <3>2. r \in ReviewRec /\ r.by = "chat" /\ r.authorised
      BY <2>2, <3>1, ReviewTypes DEF Types
    <3>. QED
      BY <2>2, <3>1, <3>2, AppendedReviews DEF Types
  <2>. QED
    BY <1>5, <2>1, <2>2, NextChats DEF ChatTextsFrom
<1>. QED
  BY <1>1, <1>3, <1>4, <1>5 DEF TextsSound

-----------------------------------------------------------------------------
Inv == Types /\ JobsSound /\ ChatsSound /\ TextsSound /\ ApprovalIsEarned

(* The reviews a pull request may start with. *)
LEMMA FirstReviews ==
    ASSUME Init
    PROVE  /\ reviews \in Seq(ReviewRec) /\ ApprovalIsEarned
           /\ \A i \in 1..Len(reviews) :
                 reviews[i] \in ReviewRec /\ (reviews[i].authorised => reviews[i].by = "chat")
<1> DEFINE objection == Review("pipeline", "REQUEST_CHANGES")
           human == Review("human", "APPROVED")
           override == [Review("chat", "APPROVED") EXCEPT
                           !.over = TRUE, !.authorised = TRUE]
<1>1. /\ objection \in ReviewRec /\ ~objection.over /\ ~objection.authorised
      /\ human \in ReviewRec /\ ~human.over /\ ~human.authorised
      /\ override \in ReviewRec /\ override.by = "chat" /\ override.authorised
  BY DEF Review, ReviewRec
<1>2. PICK o, h, v : o = objection /\ h = human /\ v = override
  OBVIOUS
<1>3. /\ o \in ReviewRec /\ ~o.over /\ ~o.authorised
      /\ h \in ReviewRec /\ ~h.over /\ ~h.authorised
      /\ v \in ReviewRec /\ v.by = "chat" /\ v.authorised
  BY <1>1, <1>2
<1>4. reviews \in {<<>>, <<o>>, <<o, h>>, <<o, v>>}
  BY <1>2 DEF Init, PRInit, Histories
<1>5. /\ reviews \in Seq(ReviewRec)
      /\ \A i \in 1..Len(reviews) : reviews[i] \in {o, h, v}
  <2>1. /\ <<>> \in Seq(ReviewRec) /\ <<o>> \in Seq(ReviewRec)
        /\ <<o, h>> \in Seq(ReviewRec) /\ <<o, v>> \in Seq(ReviewRec)
    BY <1>3
  <2>2. CASE reviews = <<>>
    BY <2>1, <2>2
  <2>3. CASE reviews = <<o>>
    BY <2>1, <2>3
  <2>4. CASE reviews = <<o, h>>
    BY <2>1, <2>4
  <2>5. CASE reviews = <<o, v>>
    BY <2>1, <2>5
  <2>. QED
    BY <1>4, <2>2, <2>3, <2>4, <2>5
<1>. QED
  BY <1>3, <1>5 DEF ApprovalIsEarned

LEMMA InitInv == Init => Inv
<1> SUFFICES ASSUME Init PROVE Inv
  OBVIOUS
<1>1. /\ reviews \in Seq(ReviewRec) /\ ApprovalIsEarned
      /\ \A i \in 1..Len(reviews) : reviews[i].authorised => reviews[i].by = "chat"
  BY FirstReviews
<1> USE DEF Init, PRInit, PipelineInit
<1>3. PICK t \in FirstTexts, open \in BOOLEAN, m \in BOOLEAN :
        /\ m = (\E i \in 1..Len(reviews) : reviews[i].authorised)
        /\ pr = [head |-> 1, open |-> open, title |-> t[1], body |-> t[2],
                 marked |-> m, section |-> m]
  OBVIOUS
<1>4. m \in BOOLEAN /\ (m => Overridden)
  BY <1>1, <1>3 DEF Overridden
<1>5. t[1] \in Titles /\ t[2] \in Bodies /\ 1 \in 1..MaxHead
  BY PullRequestAssumption DEF Titles, Bodies
<1>6. pr \in TextRec /\ pr.marked = m /\ pr.section = m
  BY <1>3, <1>4, <1>5 DEF TextRec
<1>7. Writable(pr)
  BY <1>4, <1>6 DEF Writable
<1>8. Types
  BY <1>1, <1>6, NoJobType, NoChatType DEF Types
<1>9. NoJob.pc = "idle" /\ NoChat.pc = "idle"
  BY DEF NoJob, NoChat
<1>10. JobsSound /\ ChatsSound
  BY <1>9 DEF JobsSound, ChatsSound, JobSound, ChatSound, FindingsSound, PathsSound,
               LocalsDropped
<1>11. TextsSound
  BY <1>7, <1>9 DEF TextsSound, ReviewEnded, HoldsText
<1>. QED
  BY <1>1, <1>8, <1>10, <1>11 DEF Inv

LEMMA NextInv == Inv /\ [Next]_vars => Inv'
<1> SUFFICES ASSUME Inv, [Next]_vars PROVE Inv'
  OBVIOUS
<1>1. Types /\ JobsSound /\ ChatsSound /\ TextsSound /\ ApprovalIsEarned
  BY DEF Inv
<1>2. reviews' \in Seq(ReviewRec) /\ ApprovalIsEarned'
  BY <1>1, NextReviews
<1>3. job' \in [Jobs -> JobRec] /\ JobsSound'
  BY <1>1, NextJobs
<1>4. chat' \in [Chats -> ChatRec] /\ ChatsSound'
  BY <1>1, NextChats
<1>5. pr' \in TextRec
  BY <1>1, NextText
<1>6. TextsSound'
  BY <1>1, NextTexts
<1>. QED
  BY <1>2, <1>3, <1>4, <1>5, <1>6 DEF Inv, Types

LEMMA AlwaysInv == Spec => []Inv
<1>1. Init => Inv
  BY InitInv
<1>2. Inv /\ [Next]_vars => Inv'
  BY NextInv
<1>. QED
  BY <1>1, <1>2, PTL DEF Spec

(* Nothing but the floor, the path guard and an explicit verdict of a      *)
(* verifier takes a finding off a review, through errors, nonsense and     *)
(* spent turns of the verifiers.                                           *)
THEOREM FindingsAddUp == Spec => []FindingsAccounted
<1>1. Inv => FindingsAccounted
  BY DEF Inv, JobsSound, JobSound, FindingsSound, FindingsAccounted
<1>. QED
  BY <1>1, AlwaysInv, PTL

(* A file that the repository's configuration ignores is in neither the    *)
(* diff nor the list of files the model is shown, whichever way the diff   *)
(* was come by, and gets no inline comment while the list is not empty.    *)
THEOREM IgnoredKeptOut == Spec => []IgnoredStayOut
<1>1. Inv => IgnoredStayOut
  <2> SUFFICES ASSUME Inv, NEW j \in Jobs,
                      job[j].pc \notin ReviewEnded \cup {"prepare", "diff"},
                      job[j].workspace = "configured"
               PROVE  /\ \A p \in Prompt(job[j]) \cap Ignored :
                            p \in job[j].quoted /\ p \notin job[j].diff \cup job[j].changed
                      /\ (job[j].pc = "metadata" /\ job[j].changed # {}) =>
                            \A f \in job[j].findings : f.path \notin Ignored
    BY DEF IgnoredStayOut
  <2>1. job[j] \in JobRec /\ JobSound(job[j])
    BY DEF Inv, Types, JobsSound
  <2>2. job[j].pc \in {"files", "generate", "verify", "metadata"}
    BY <2>1 DEF JobRec, JobPlaces, JobSound, LocalsDropped
  <2>3. (job[j].diff \cup job[j].changed) \cap Ignored = {}
    BY <2>1, <2>2 DEF JobSound, PathsSound
  <2>4. job[j].pc = "metadata" /\ job[j].changed # {} =>
          \A f \in job[j].findings : f.path \in job[j].changed
    BY <2>1 DEF JobSound, FindingsSound
  <2>. QED
    BY <2>3, <2>4 DEF Prompt
<1>. QED
  BY <1>1, AlwaysInv, PTL

(* An approval over the bot's objection has a listed user and a reason     *)
(* behind it, however many commands and reviews overlap.                   *)
THEOREM ApprovalsEarned == Spec => []ApprovalIsEarned
<1>1. Inv => ApprovalIsEarned
  BY DEF Inv
<1>. QED
  BY <1>1, AlwaysInv, PTL

(* The override marker is whole or absent, and stands for an override that *)
(* was posted, although jobs and commands write it from old snapshots.     *)
THEOREM MarkerMeansOverride == Spec => []MarkerIsOverride
<1>1. Inv => MarkerIsOverride
  BY DEF Inv, TextsSound, Writable, MarkerIsOverride
<1>. QED
  BY <1>1, AlwaysInv, PTL

(* The bot never puts together a title and body that no person wrote.      *)
THEOREM WordsKept == Spec => []WordsArePeoples
<1>1. Inv => WordsArePeoples
  BY DEF Inv, TextsSound, Writable, WordsArePeoples
<1>. QED
  BY <1>1, AlwaysInv, PTL

-----------------------------------------------------------------------------
(* The promise about title and body, step by step.                         *)

LEMMA PromiseInit == Init => Marker!Init
<1> SUFFICES ASSUME Init PROVE Marker!Init
  OBVIOUS
<1>1. PICK t \in FirstTexts, overridden \in {\E i \in 1..Len(reviews) : reviews[i].authorised} :
        /\ pr.title = t[1] /\ pr.body = t[2]
        /\ pr.marked = overridden /\ pr.section = overridden
  BY DEF Init, PRInit
<1>2. t \in Texts /\ t = <<t[1], t[2]>>
  BY PullRequestAssumption
<1>3. versions = {<<pr.title, pr.body>>}
  BY DEF Init, PRInit
<1>4. \A i \in 1..Len(reviews) : reviews[i].authorised => reviews[i].by = "chat"
  BY FirstReviews
<1>5. overridden <=> Overridden
  BY <1>4 DEF Overridden
<1>6. CASE overridden
  BY <1>1, <1>2, <1>3, <1>5, <1>6 DEF Marker!Init, Marker!Whole
<1>7. CASE ~overridden
  BY <1>1, <1>2, <1>3, <1>5, <1>7 DEF Marker!Init, Marker!Absent, Overridden
<1>. QED
  BY <1>6, <1>7

(* A step that leaves the texts alone can only post an override. *)
LEMMA PromiseKept ==
    ASSUME Types, ChatsSound, [Next]_vars, SameWords(pr', pr), versions' = versions
    PROVE  [Marker!Next]_(Marker!promise)
<1>1. Overridden => Overridden'
  BY NextReviews
<1>2. /\ <<pr.title, pr.body>>' = <<pr.title, pr.body>>
      /\ <<pr.marked, pr.section>>' = <<pr.marked, pr.section>>
  BY DEF SameWords
<1>3. CASE Overridden' = Overridden
  BY <1>2, <1>3 DEF Marker!promise
<1>4. CASE Overridden' = TRUE
  BY <1>2, <1>4 DEF Marker!Next, Marker!Override
<1>. QED
  BY <1>1, <1>3, <1>4 DEF Overridden

(* What the bot writes it writes around words it was shown, once someone   *)
(* has overridden it.                                                      *)
LEMMA PromiseWritten ==
    ASSUME NEW t \in TextRec, Writable(t), Overridden, pr \in TextRec, NEW m \in BOOLEAN,
           pr' = [pr EXCEPT !.title = t.title, !.marked = m,
                            !.body = t.body, !.section = m],
           UNCHANGED <<reviews, versions>>
    PROVE  Marker!Next
<1>1. <<pr.title, pr.body>>' = <<t.title, t.body>> /\ <<pr.marked, pr.section>>' = <<m, m>>
  BY DEF TextRec
<1>2. <<t.title, t.body>> \in versions
  BY DEF Writable
<1>3. Overridden' = Overridden
  BY DEF Overridden
<1>4. <<m, m>> \in {Marker!Whole, Marker!Absent}
  BY DEF Marker!Whole, Marker!Absent
<1>5. Marker!Write(<<t.title, t.body>>, <<m, m>>)
  BY <1>1, <1>3 DEF Marker!Write
<1>. QED
  BY <1>2, <1>4, <1>5 DEF Marker!Next

LEMMA PromiseNext ==
    ASSUME Inv, [Next]_vars
    PROVE  [Marker!Next]_(Marker!promise)
<1> DEFINE Goal == [Marker!Next]_(Marker!promise)
<1>0. Types /\ ChatsSound /\ TextsSound /\ pr \in TextRec
  BY DEF Inv, Types
<1>1. ASSUME pr' = pr, versions' = versions PROVE Goal
  BY <1>0, <1>1, PromiseKept DEF SameWords
<1>2. CASE Push
  <2>1. SameWords(pr', pr) /\ versions' = versions
    BY <1>0, <1>2 DEF Push, SameWords, TextRec
  <2>. QED
    BY <1>0, <2>1, PromiseKept
<1>3. CASE Edit
  <2>1. PICK t \in Texts : /\ pr' = [pr EXCEPT !.title = t[1], !.body = t[2]]
                           /\ t \notin versions /\ versions' = versions \cup {t}
                           /\ reviews' = reviews
    BY <1>3 DEF Edit
  <2>2. t = <<t[1], t[2]>>
    BY PullRequestAssumption
  <2>3. /\ <<pr.title, pr.body>>' = t
        /\ <<pr.marked, pr.section>>' = <<pr.marked, pr.section>>
    BY <1>0, <2>1, <2>2 DEF TextRec
  <2>4. Overridden' = Overridden
    BY <2>1 DEF Overridden
  <2>5. Marker!Say(t)
    BY <2>1, <2>3, <2>4 DEF Marker!Say
  <2>. QED
    BY <2>5 DEF Marker!Next
<1>4. ASSUME NEW j \in Jobs, StripOverride(j) PROVE Goal
  <2>1. PICK t : t = job[j].text
    OBVIOUS
  <2>2. t \in TextRec /\ Writable(t)
    BY <1>0, <1>4, <2>1 DEF StripOverride, Types, TextsSound, JobRec, ReviewEnded
  <2>3. /\ UNCHANGED <<reviews, versions>>
        /\ pr' = pr \/ (HasMarker(t) /\ UpdatePullRequest(StripMarker(t)))
    BY <1>4, <2>1 DEF StripOverride
  <2>4. CASE HasMarker(t) /\ UpdatePullRequest(StripMarker(t))
    <3>1. /\ StripMarker(t).title = t.title /\ StripMarker(t).body = t.body
          /\ StripMarker(t).marked = FALSE /\ StripMarker(t).section = FALSE
      BY <2>2 DEF StripMarker, TextRec
    <3>2. pr' = [pr EXCEPT !.title = t.title, !.marked = FALSE,
                           !.body = t.body, !.section = FALSE]
      BY <2>4, <3>1 DEF UpdatePullRequest
    <3>3. Overridden
      BY <2>2, <2>4 DEF HasMarker, Writable
    <3>. QED
      BY <1>0, <2>2, <2>3, <3>2, <3>3, PromiseWritten
  <2>. QED
    BY <1>1, <2>3, <2>4
<1>5. ASSUME NEW c \in Chats, StampOverride(c) PROVE Goal
  <2>1. PICK t : t = chat[c].text
    OBVIOUS
  <2>2. t \in TextRec /\ Writable(t) /\ Overridden
    BY <1>0, <1>5, <2>1 DEF StampOverride, Types, TextsSound, ChatRec, HoldsText
  <2>3. /\ UNCHANGED <<reviews, versions>>
        /\ pr' = pr \/ UpdatePullRequest(ApplyMarker(t))
    BY <1>5, <2>1 DEF StampOverride
  <2>4. CASE UpdatePullRequest(ApplyMarker(t))
    <3>1. /\ ApplyMarker(t).title = t.title /\ ApplyMarker(t).body = t.body
          /\ ApplyMarker(t).marked = TRUE /\ ApplyMarker(t).section = TRUE
      BY <2>2 DEF ApplyMarker, TextRec
    <3>2. pr' = [pr EXCEPT !.title = t.title, !.marked = TRUE,
                           !.body = t.body, !.section = TRUE]
      BY <2>4, <3>1 DEF UpdatePullRequest
    <3>. QED
      BY <1>0, <2>2, <2>3, <3>2, PromiseWritten
  <2>. QED
    BY <1>1, <2>3, <2>4
<1>6. ASSUME NEW j \in Jobs, JobStep(j), ~StripOverride(j)
      PROVE  pr' = pr /\ versions' = versions
  BY <1>6 DEF JobStep, Prepare, FetchDiff, ListChangedFiles, HostFails, Generate,
              LlmFails, SkipVerification, VerifySimple, VerifyTurn, CheckMetadata,
              PostReview, prVars
<1>7. ASSUME NEW c \in Chats, Mention(c) \/ ChatStep(c), ~StampOverride(c)
      PROVE  pr' = pr /\ versions' = versions
  BY <1>7 DEF Mention, ChatStep, Help, HandleReReview, ReplyQueued, HandleSuggest,
              PostSuggestions, HandleTestScaffolds, HandleFreeform, ReadForApproval,
              OutstandingFindings, AuthoriseOverride, RememberCorrection, Refuse,
              Approve, prVars
<1>8. (\E j \in Jobs : CiReview(j)) \/ UNCHANGED vars => pr' = pr /\ versions' = versions
  BY DEF CiReview, vars, prVars
<1>. QED
  BY <1>1, <1>2, <1>3, <1>4, <1>5, <1>6, <1>7, <1>8 DEF Next, People

(* Reviews, commands and people together keep the promise about title and  *)
(* body: the bot writes nothing there before an authorised override, and   *)
(* then the marker whole or not at all, around one person's words.         *)
THEOREM MarkerRefinement == Spec => ImplementsMarker
<1>1. Init => Inv /\ Marker!Init
  BY InitInv, PromiseInit
<1>2. Inv /\ [Next]_vars => Inv'
  BY NextInv
<1>3. Inv /\ [Next]_vars => [Marker!Next]_(Marker!promise)
  BY PromiseNext
<1>. QED
  BY <1>1, <1>2, <1>3, PTL DEF Spec, ImplementsMarker, Marker!Spec
=============================================================================
