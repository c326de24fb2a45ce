--------------------------- MODULE TelegramBotProofs ---------------------------
(***************************************************************************)
(* Proofs about TelegramBot, for any catalogue, any number of handlers at  *)
(* once and both modes: its types, who the bot lets in or locks out, and,  *)
(* in polling mode, that what is sent is what was shown.                   *)
(***************************************************************************)
EXTENDS TelegramBot, TLAPS

(* The fields of a handler, whatever is in them.                            *)
IsHandler(h) ==
  h = [pc |-> h.pc, conv |-> h.conv, at |-> h.at, upd |-> h.upd, ret |-> h.ret,
       later |-> h.later, report |-> h.report, whole |-> h.whole, seen |-> h.seen]

HandlersOK ==
  /\ running = [s \in Slots |-> running[s]]
  /\ \A s \in Slots : IsHandler(running[s])

(* What is kept of a handler that has run.                                  *)
LEMMA Kept ==
  /\ IsHandler(Idle) /\ Idle.pc = "idle" /\ Idle.conv = "none"
  /\ \A conv, e, report :
       LET h == Replying(conv, e, report)
       IN /\ IsHandler(h) /\ h.pc = "replying" /\ h.conv = conv /\ h.ret = e.ret
          /\ h.later = e.later /\ h.at = END /\ h.seen = NoReport
          /\ h.report = IF e.ret = "CONFIRM" THEN report ELSE NoReport
  /\ \A g, report, whole :
       LET h == Posting(g, report, whole)
       IN /\ IsHandler(h) /\ h.pc = "posting" /\ h.conv = g.conv /\ h.report = report
          /\ h.whole = whole /\ h.seen = g.seen /\ h.ret = END /\ h.later = "nothing"
<1>1. /\ IsHandler(Idle) /\ Idle.pc = "idle" /\ Idle.conv = "none"
      /\ Idle.at = END /\ Idle.seen = NoReport /\ Idle.ret = END /\ Idle.later = "nothing"
  BY DEF IsHandler, Idle
<1>2. ASSUME NEW conv, NEW e, NEW report
      PROVE LET h == Replying(conv, e, report)
            IN /\ IsHandler(h) /\ h.pc = "replying" /\ h.conv = conv /\ h.ret = e.ret
               /\ h.later = e.later /\ h.at = END /\ h.seen = NoReport
               /\ h.report = IF e.ret = "CONFIRM" THEN report ELSE NoReport
  <2>1. Replying(conv, e, report) =
          [pc |-> "replying", conv |-> conv, at |-> END, upd |-> Update("none", None, None),
           ret |-> e.ret, later |-> e.later,
           report |-> IF e.ret = "CONFIRM" THEN report ELSE NoReport,
           whole |-> FALSE, seen |-> NoReport]
    <3>. DEFINE idle == Idle
    <3>1. idle = [pc |-> "idle", conv |-> "none", at |-> END, upd |-> Update("none", None, None),
                  ret |-> END, later |-> "nothing", report |-> NoReport, whole |-> FALSE,
                  seen |-> NoReport]
      BY DEF Idle
    <3>2. Replying(conv, e, report) =
            [idle EXCEPT !.pc = "replying", !.conv = conv, !.ret = e.ret, !.later = e.later,
                         !.report = IF e.ret = "CONFIRM" THEN report ELSE NoReport]
      BY DEF Replying
    <3>. HIDE DEF idle
    <3>. QED
      BY <3>1, <3>2
  <2>. QED
    BY <2>1 DEF IsHandler
<1>3. ASSUME NEW g, NEW report, NEW whole
      PROVE LET h == Posting(g, report, whole)
            IN /\ IsHandler(h) /\ h.pc = "posting" /\ h.conv = g.conv /\ h.report = report
               /\ h.whole = whole /\ h.seen = g.seen /\ h.ret = END /\ h.later = "nothing"
  <2>1. Posting(g, report, whole) =
          [pc |-> "posting", conv |-> g.conv, at |-> END, upd |-> Update("none", None, None),
           ret |-> END, later |-> "nothing", report |-> report,
           whole |-> whole, seen |-> g.seen]
    <3>. DEFINE idle == Idle
    <3>1. idle = [pc |-> "idle", conv |-> "none", at |-> END, upd |-> Update("none", None, None),
                  ret |-> END, later |-> "nothing", report |-> NoReport, whole |-> FALSE,
                  seen |-> NoReport]
      BY DEF Idle
    <3>2. Posting(g, report, whole) =
            [idle EXCEPT !.pc = "posting", !.conv = g.conv, !.report = report,
                         !.whole = whole, !.seen = g.seen]
      BY DEF Posting
    <3>. HIDE DEF idle
    <3>. QED
      BY <3>1, <3>2
  <2>. QED
    BY <2>1 DEF IsHandler
<1>. QED
  BY <1>1, <1>2, <1>3

LEMMA Posted ==
  ASSUME NEW g, NEW report, NEW whole
  PROVE  /\ IsHandler(Posting(g, report, whole)) /\ Posting(g, report, whole).pc = "posting"
         /\ Posting(g, report, whole).conv = g.conv
         /\ Posting(g, report, whole).report = report
         /\ Posting(g, report, whole).seen = g.seen
<1>. DEFINE h == Posting(g, report, whole)
<1>1. IsHandler(h) /\ h.pc = "posting" /\ h.conv = g.conv /\ h.report = report /\ h.seen = g.seen
  BY Kept
<1>. QED
  BY <1>1

(* A handler that is now at pc.                                             *)
At(h, pc) == [h EXCEPT !.pc = pc]

(* A handler that goes on, and one that is given an update.                 *)
LEMMA GoesOn ==
  ASSUME NEW h, IsHandler(h), NEW pc
  PROVE  /\ IsHandler(At(h, pc)) /\ At(h, pc).pc = pc /\ At(h, pc).conv = h.conv
         /\ At(h, pc).at = h.at /\ At(h, pc).upd = h.upd /\ At(h, pc).ret = h.ret
         /\ At(h, pc).later = h.later /\ At(h, pc).report = h.report
         /\ At(h, pc).whole = h.whole /\ At(h, pc).seen = h.seen
<1>1. At(h, pc) =
        [pc |-> pc, conv |-> h.conv, at |-> h.at, upd |-> h.upd, ret |-> h.ret,
         later |-> h.later, report |-> h.report, whole |-> h.whole, seen |-> h.seen]
  BY DEF IsHandler, At
<1>. QED
  BY <1>1 DEF IsHandler

LEMMA Given ==
  ASSUME NEW u
  PROVE  /\ Handler(u).conv = ConvOf(u) /\ Handler(u).upd = u
         /\ Handler(u).at = IF ConvOf(u) = "apply" THEN appl ELSE subm
         /\ Handler(u).seen = IF u.key \in {"confirm", "apply_confirm"}
                              THEN shown[ConvOf(u)] ELSE NoReport
         /\ Handler(u).report = NoReport /\ Handler(u).ret = END
         /\ Handler(u).later = "nothing" /\ Handler(u).whole = FALSE
         /\ IsHandler(Handler(u))
<1>. DEFINE idle == Idle
            c == ConvOf(u)
            at == IF c = "apply" THEN appl ELSE subm
            seen == IF u.key \in {"confirm", "apply_confirm"} THEN shown[c] ELSE NoReport
            handler == Handler(u)
<1>1. idle = [pc |-> "idle", conv |-> "none", at |-> END, upd |-> Update("none", None, None),
              ret |-> END, later |-> "nothing", report |-> NoReport, whole |-> FALSE,
              seen |-> NoReport]
  BY DEF Idle
<1>2. handler = [idle EXCEPT !.conv = c, !.at = at, !.upd = u, !.seen = seen]
  BY DEF Handler
<1>. HIDE DEF idle, c, at, seen, handler
<1>3. handler = [pc |-> "idle", conv |-> c, at |-> at, upd |-> u,
                 ret |-> END, later |-> "nothing", report |-> NoReport, whole |-> FALSE,
                 seen |-> seen]
  BY <1>1, <1>2
<1>4. IsHandler(handler)
  BY <1>3 DEF IsHandler
<1>. QED
  BY <1>3, <1>4 DEF handler, c, at, seen

-----------------------------------------------------------------------------
(* Who is let in, and who is locked out.                                    *)

(* Whom the bot may take for an agent.                                      *)
Entitled == since.approved \/ let_in

(* A handler of the submit conversation runs for someone entitled to it,    *)
(* unless it is still to find that out.                                     *)
Caused(h) ==
  /\ h.pc = "forbidden" => since.banned
  /\ h.pc = "activated" => Entitled
  /\ h.conv = "submit" /\ h.pc = "answering" => Entitled
  /\ h.conv = "submit" /\ h.pc = "syncing" /\ h.upd.kind # "start" => Entitled
  /\ h.conv = "submit" /\ h.pc = "replying" /\ h.ret # END => Entitled

CauseInv ==
  /\ HandlersOK
  /\ since \in [approved: BOOLEAN, banned: BOOLEAN] /\ let_in \in BOOLEAN
  /\ api \in [agent: BOOLEAN, banned: BOOLEAN, applied: BOOLEAN]
  /\ ApprovedByAPI => Entitled
  /\ api.banned => since.banned
  /\ registered \in BOOLEAN /\ banned \in BOOLEAN
  /\ banned => since.banned
  /\ registered => Entitled
  /\ subm # END => Entitled
  /\ \A s \in Slots : Caused(running[s])

LEMMA CauseInit == Init => CauseInv
<1>. SUFFICES ASSUME Init PROVE CauseInv
  OBVIOUS
<1>1. IsHandler(Idle) /\ Caused(Idle)
  BY DEF Entitled, IsHandler, Idle, Caused
<1>2. HandlersOK /\ \A s \in Slots : Caused(running[s])
  BY <1>1 DEF Init, HandlersOK
<1>3. /\ api \in [agent: BOOLEAN, banned: BOOLEAN, applied: BOOLEAN]
      /\ api.banned = FALSE
  BY DEF Init
<1>4. /\ since \in [approved: BOOLEAN, banned: BOOLEAN] /\ since.approved = api.agent
      /\ let_in \in BOOLEAN
  BY <1>3, SettingsAssumption DEF Init
<1>. QED
  BY <1>2, <1>3, <1>4 DEF Entitled, Init, CauseInv, ApprovedByAPI

(* A handler of slot s goes on, while the bot and the API stay as they are. *)
LEMMA HandlerMoves ==
  ASSUME CauseInv, NEW s \in Slots, NEW h, running' = [running EXCEPT ![s] = h],
         IsHandler(h), Caused(h)
  PROVE  /\ HandlersOK' /\ running'[s] = h
         /\ \A t \in Slots : IsHandler(running'[t]) /\ Caused(running'[t])
BY DEF Entitled, CauseInv, HandlersOK

LEMMA SameWorld ==
  ASSUME CauseInv, UNCHANGED <<let_in, registered, banned, api, since, subm>>, HandlersOK',
         \A t \in Slots : Caused(running'[t])
  PROVE  CauseInv'
BY DEF Entitled, CauseInv, Caused, ApprovedByAPI

LEMMA RunCause ==
  ASSUME CauseInv, NEW s \in Slots, NEW h, NEW known \in BOOLEAN,
         Run(s, h, known), known => Entitled,
         h.conv = "submit" /\ h.upd.kind # "start" => Entitled
  PROVE  /\ HandlersOK' /\ UNCHANGED <<let_in, subm, banned, api, since>>
         /\ \A t \in Slots : Caused(running'[t])
<1>1. UNCHANGED <<let_in, subm, banned, api, since>>
  BY DEF Run
<1>2. CASE RunSubmit(s, h, known)
  <2>1. ASSUME NEW e, AfterSubmit(s, h, e), e.ret # END => Entitled
        PROVE  HandlersOK' /\ \A t \in Slots : Caused(running'[t])
    <3>. DEFINE next == CASE e.ret = "raise" -> Idle
                          [] e.ret = "post" /\ ~banned -> Posting(h, Report(draft), TRUE)
                          [] e.ret = "post" /\ banned ->
                               Replying("submit", ClearLater(draft), NoReport)
                          [] OTHER -> Replying("submit", e, Summary(Report(e.draft)))
    <3>1. IsHandler(next) /\ Caused(next)
      BY <2>1 DEF Entitled, IsHandler, Caused, Idle, Posting, Replying, ClearLater, Effect, END
    <3>2. running' = [running EXCEPT ![s] = next]
      BY <2>1 DEF AfterSubmit
    <3>. HIDE DEF next
    <3>. QED
      BY <1>1, <3>1, <3>2, HandlerMoves DEF Entitled, Caused
  <2>2. CASE h.upd.kind = "start" /\ DeclineStart(known)
    BY <1>1, <1>2, <2>1, <2>2 DEF RunSubmit, Effect
  <2>3. CASE ~(h.upd.kind = "start" /\ DeclineStart(known))
    <3>1. Entitled
      BY <1>2, <2>3 DEF DeclineStart, RunSubmit
    <3>. QED
      BY <1>1, <1>2, <2>1, <2>3, <3>1 DEF RunSubmit
  <2>. QED
    BY <2>2, <2>3
<1>3. ASSUME NEW next, running' = [running EXCEPT ![s] = next],
             IsHandler(next), Caused(next)
      PROVE  HandlersOK' /\ \A t \in Slots : Caused(running'[t])
  BY <1>1, <1>3, HandlerMoves DEF Entitled, Caused
<1>4. CASE RunApply(s, h, known)
  <2>0. h.conv = "apply"
    BY <1>4 DEF RunApply
  <2>1. ASSUME NEW e, AfterApply(s, h, e)
        PROVE  HandlersOK' /\ \A t \in Slots : Caused(running'[t])
    <3>. DEFINE next == CASE e.ret = "raise" -> Idle
                          [] e.ret = "post" -> Posting(h, MarketOnly(AppliedMarket(form)),
                                                       FormComplete(form))
                          [] OTHER -> Replying("apply", e, MarketOnly(SummaryMarket(e.draft)))
    <3>1. IsHandler(next) /\ Caused(next)
      BY <2>0 DEF Entitled, IsHandler, Caused, Idle, Posting, Replying
    <3>2. running' = [running EXCEPT ![s] = next]
      BY <2>1 DEF AfterApply
    <3>. HIDE DEF next
    <3>. QED
      BY <1>3, <3>1, <3>2
  <2>. QED
    BY <1>1, <1>4, <2>1 DEF RunApply
<1>5. CASE RunInfo(s, h, known)
  <2>. DEFINE next == Replying("info", Effect(draft, END), NoReport)
  <2>1. IsHandler(next) /\ Caused(next)
    BY Kept DEF Entitled, Caused
  <2>2. running' = [running EXCEPT ![s] = next]
    BY <1>5 DEF RunInfo
  <2>. HIDE DEF next
  <2>. QED
    BY <1>1, <1>3, <2>1, <2>2
<1>6. CASE RunInvite(s, h)
  <2>. DEFINE next == Posting(h, NoReport, FALSE)
  <2>1. IsHandler(next) /\ Caused(next)
    BY <1>6, Kept DEF Entitled, Caused, RunInvite
  <2>2. running' = [running EXCEPT ![s] = next]
    BY <1>6 DEF RunInvite
  <2>. HIDE DEF next
  <2>. QED
    BY <1>1, <1>3, <2>1, <2>2
<1>. QED
  BY <1>1, <1>2, <1>4, <1>5, <1>6 DEF Run

(* An update of the submit conversation that enters nothing finds it open.  *)
LEMMA TakenWhenOpen ==
  ASSUME NEW u, ConvOf(u) = "submit", u.kind # "start"
  PROVE  subm # END
BY DEF ConvOf, SubmitTakes

LEMMA ReceiveCause ==
  ASSUME CauseInv, NEW s \in Slots, NEW u,
         Receive(s, u) \/ ReceiveUnknown(s, u) \/ ReceiveAndRun(s, u)
  PROVE  CauseInv'
<1>1. CASE Receive(s, u)
  <2>. DEFINE h == At(Handler(u), "answering")
  <2>1. IsHandler(h) /\ h.pc = "answering" /\ h.conv = ConvOf(u)
    <3>1. IsHandler(Handler(u)) /\ Handler(u).conv = ConvOf(u) /\ Handler(u).upd = u
      BY Given
    <3>. QED
      BY <3>1, GoesOn
  <2>2. running' = [running EXCEPT ![s] = h] /\ u.kind # "start"
        /\ UNCHANGED <<let_in, registered, banned, api, since, subm>>
    BY <1>1 DEF Receive, convs, At
  <2>. HIDE DEF h
  <2>3. Caused(h)
    BY <2>1, <2>2, TakenWhenOpen DEF Entitled, Caused, CauseInv
  <2>. QED
    BY <2>1, <2>2, <2>3, HandlerMoves, SameWorld
<1>2. CASE ReceiveUnknown(s, u)
  <2>. DEFINE h == At(Handler(u), "syncing")
  <2>1. IsHandler(h) /\ h.pc = "syncing" /\ h.conv = ConvOf(u) /\ h.upd = u
    <3>1. IsHandler(Handler(u)) /\ Handler(u).conv = ConvOf(u) /\ Handler(u).upd = u
      BY Given
    <3>. QED
      BY <3>1, GoesOn
  <2>2. running' = [running EXCEPT ![s] = h]
        /\ UNCHANGED <<let_in, registered, banned, api, since, subm>>
    BY <1>2 DEF ReceiveUnknown, convs, At
  <2>. HIDE DEF h
  <2>3. Caused(h)
    BY <2>1, <2>2, TakenWhenOpen DEF Entitled, Caused, CauseInv
  <2>. QED
    BY <2>1, <2>2, <2>3, HandlerMoves, SameWorld
<1>3. CASE ReceiveAndRun(s, u)
  <2>1. Handler(u).conv = ConvOf(u) /\ Handler(u).upd = u
    BY Given
  <2>2. Run(s, Handler(u), registered) /\ registered' = registered
    BY <1>3 DEF ReceiveAndRun
  <2>3. /\ HandlersOK' /\ UNCHANGED <<let_in, subm, banned, api, since>>
        /\ \A t \in Slots : Caused(running'[t])
    BY <2>1, <2>2, TakenWhenOpen, RunCause DEF Entitled, CauseInv
  <2>. QED
    BY <2>2, <2>3, SameWorld
<1>. QED
  BY <1>1, <1>2, <1>3

(* The steps of a handler that waits.                                       *)
LEMMA HandlerCause ==
  ASSUME CauseInv, NEW s \in Slots,
         \/ Answered(s) \/ LanguageChosen(s) \/ Synced(s) \/ Replied(s) \/ TelegramFails(s)
         \/ PostArrives(s) \/ TriageDone(s) \/ TriageTooSlow(s)
         \/ PostAnswered(s) \/ PostFails(s)
  PROVE  CauseInv'
<1>0. /\ IsHandler(running[s]) /\ Caused(running[s]) /\ IsHandler(Idle) /\ Caused(Idle)
      /\ since.approved \in BOOLEAN /\ since.banned \in BOOLEAN
  BY Kept DEF Entitled, CauseInv, HandlersOK, Caused
<1>1. CASE Answered(s)
  <2>1. /\ HandlersOK' /\ UNCHANGED <<let_in, subm, banned, api, since>>
        /\ \A t \in Slots : Caused(running'[t])
    BY <1>0, <1>1, RunCause DEF Entitled, Answered, CauseInv, Caused
  <2>. QED
    BY <1>1, <2>1, SameWorld DEF Answered
<1>2. CASE LanguageChosen(s)
  <2>. DEFINE pc == IF registered THEN "replying" ELSE "syncing"
              h == At(running[s], pc)
  <2>1. running' = [running EXCEPT ![s] = h] /\ running[s].conv = "info"
        /\ UNCHANGED <<let_in, registered, banned, api, since, subm>>
    BY <1>2 DEF LanguageChosen, At
  <2>2. IsHandler(h) /\ h.pc = pc /\ h.conv = running[s].conv
    BY <1>0, GoesOn
  <2>. HIDE DEF h
  <2>3. Caused(h)
    BY <2>1, <2>2 DEF Entitled, Caused
  <2>. QED
    BY <2>1, <2>2, <2>3, HandlerMoves, SameWorld
<1>3. CASE Synced(s)
  <2>1. PICK known \in {registered, registered \/ ApprovedByAPI} :
          registered' = known /\ Run(s, running[s], known)
    BY <1>3 DEF Synced
  <2>2. known \in BOOLEAN /\ (known => Entitled) /\ running[s].pc = "syncing"
    BY <1>3, <2>1 DEF Entitled, CauseInv, ApprovedByAPI, Synced
  <2>3. /\ HandlersOK' /\ UNCHANGED <<let_in, subm, banned, api, since>>
        /\ \A t \in Slots : Caused(running'[t])
    BY <1>0, <2>1, <2>2, RunCause DEF Entitled, Caused
  <2>. QED
    BY <2>1, <2>2, <2>3 DEF Entitled, CauseInv, Caused, ApprovedByAPI
<1>4. CASE Replied(s)
  <2>1. /\ running' = [running EXCEPT ![s] = Idle]
        /\ subm' = (IF running[s].conv = "submit" THEN running[s].ret ELSE subm)
        /\ running[s].pc = "replying" /\ UNCHANGED <<let_in, registered, banned, api, since>>
    BY <1>4 DEF Replied
  <2>2. HandlersOK' /\ \A t \in Slots : Caused(running'[t])
    BY <1>0, <2>1, HandlerMoves
  <2>3. subm' # END => Entitled
    BY <1>0, <2>1 DEF Entitled, CauseInv, Caused
  <2>. QED
    BY <2>1, <2>2, <2>3 DEF Entitled, CauseInv, Caused, ApprovedByAPI
<1>5. CASE TelegramFails(s)
  <2>1. /\ running' = [running EXCEPT ![s] = Idle]
        /\ UNCHANGED <<let_in, registered, banned, api, since, subm>>
    BY <1>5 DEF TelegramFails
  <2>. QED
    BY <1>0, <2>1, HandlerMoves, SameWorld
<1>6. CASE PostArrives(s)
  <2>1. PICK a \in AnswersTo(running[s]) :
          /\ running' = [running EXCEPT ![s] = At(running[s], a)]
          /\ api' = [api EXCEPT !.applied = @ \/ a = "stored", !.agent = @ \/ a = "activated"]
          /\ since' = [since EXCEPT !.approved = @ \/ a = "activated"]
    BY <1>6 DEF PostArrives, At
  <2>2. UNCHANGED <<let_in, registered, banned, subm>>
    BY <1>6 DEF PostArrives, convs
  <2>3. /\ api' \in [agent: BOOLEAN, banned: BOOLEAN, applied: BOOLEAN]
        /\ since' \in [approved: BOOLEAN, banned: BOOLEAN]
        /\ api'.banned = api.banned /\ since'.banned = since.banned
        /\ api'.agent <=> api.agent \/ a = "activated"
        /\ since'.approved <=> since.approved \/ a = "activated"
    BY <2>1 DEF Entitled, CauseInv
  <2>4. /\ a \in {"refused", "forbidden", "triaging", "stored", "activated"}
        /\ a = "forbidden" => api.banned
    BY <2>1 DEF AnswersTo, SubmitAnswers, ApplyAnswers, InviteAnswers
  <2>5. IsHandler(At(running[s], a)) /\ At(running[s], a).pc = a
    BY <1>0, GoesOn
  <2>6. /\ HandlersOK' /\ running'[s] = At(running[s], a)
        /\ \A t \in Slots \ {s} : running'[t] = running[t]
    BY <2>1, <2>5 DEF Entitled, CauseInv, HandlersOK
  <2>7. ASSUME NEW t \in Slots PROVE Caused(running[t])'
    <3>1. CASE t = s
      BY <2>2, <2>3, <2>4, <2>5, <2>6, <3>1 DEF Entitled, Caused, CauseInv
    <3>2. CASE t # s
      BY <2>2, <2>3, <2>6, <3>2 DEF Entitled, Caused, CauseInv
    <3>. QED
      BY <3>1, <3>2
  <2>. QED
    BY <2>2, <2>3, <2>6, <2>7 DEF Entitled, CauseInv, ApprovedByAPI
<1>7. CASE TriageDone(s)
  <2>. DEFINE h == At(running[s], "stored")
  <2>1. running' = [running EXCEPT ![s] = h]
        /\ UNCHANGED <<let_in, registered, banned, api, since, subm>>
    BY <1>7 DEF TriageDone, convs, At
  <2>2. IsHandler(h) /\ h.pc = "stored"
    BY <1>0, GoesOn
  <2>. HIDE DEF h
  <2>3. Caused(h)
    BY <2>2 DEF Entitled, Caused
  <2>. QED
    BY <2>1, <2>2, <2>3, HandlerMoves, SameWorld
<1>8. CASE TriageTooSlow(s) \/ PostAnswered(s) \/ PostFails(s)
  <2>1. PICK e : /\ running' = [running EXCEPT ![s] = Replying(running[s].conv, e, NoReport)]
                 /\ e.ret = END
    <3>. DEFINE c == running[s].conv
                e == [Effect(draft, END) EXCEPT
                        !.later = CASE c = "submit" -> "clear" [] c = "apply" -> "drop form"
                                    [] OTHER -> "nothing"]
    <3>1. running' = [running EXCEPT ![s] = Replying(running[s].conv, e, NoReport)]
      BY <1>8 DEF TriageTooSlow, PostAnswered, PostFails, Told
    <3>2. e.ret = END
      BY DEF Effect
    <3>. QED
      BY <3>1, <3>2
  <2>2. IsHandler(Replying(running[s].conv, e, NoReport))
        /\ Caused(Replying(running[s].conv, e, NoReport))
    BY <2>1, Kept DEF Entitled, Caused
  <2>3. HandlersOK' /\ \A t \in Slots : Caused(running'[t])
    BY <2>1, <2>2, HandlerMoves
  <2>4. CASE TriageTooSlow(s) \/ PostFails(s)
    BY <2>3, <2>4, SameWorld DEF TriageTooSlow, PostFails, convs
  <2>5. CASE PostAnswered(s)
    <3>1. banned' \in BOOLEAN /\ registered' \in BOOLEAN
          /\ (banned' => since.banned) /\ (registered' => Entitled)
      BY <1>0, <2>5 DEF Entitled, PostAnswered, BanAfter, CauseInv, Caused
    <3>2. UNCHANGED <<let_in, api, since, subm>>
      BY <2>5 DEF PostAnswered, convs
    <3>. QED
      BY <2>3, <3>1, <3>2 DEF Entitled, CauseInv, Caused, ApprovedByAPI
  <2>. QED
    BY <1>8, <2>4, <2>5
<1>. QED
  BY <1>1, <1>2, <1>3, <1>4, <1>5, <1>6, <1>7, <1>8

(* The API on its own, and a restart.                                       *)
LEMMA OutsideCause ==
  ASSUME CauseInv, Approve \/ Reject \/ Ban \/ Restart
  PROVE  CauseInv'
<1>1. ASSUME NEW a \in [agent: BOOLEAN, banned: BOOLEAN, applied: BOOLEAN], AtAPI(a)
      PROVE  CauseInv'
  <2>1. /\ api' = a
        /\ since' = [approved |-> since.approved \/ (a.agent /\ ~a.banned),
                     banned |-> since.banned \/ a.banned]
        /\ UNCHANGED <<let_in, registered, banned, running, subm>>
    BY <1>1 DEF AtAPI, convs
  <2>2. /\ since' \in [approved: BOOLEAN, banned: BOOLEAN]
        /\ since'.approved <=> since.approved \/ (a.agent /\ ~a.banned)
        /\ since'.banned <=> since.banned \/ a.banned
    BY <2>1 DEF Entitled, CauseInv
  <2>. QED
    BY <2>1, <2>2 DEF Entitled, CauseInv, HandlersOK, Caused, ApprovedByAPI
<1>2. CASE Approve \/ Reject \/ Ban
  <2>1. /\ [agent |-> TRUE, banned |-> FALSE, applied |-> FALSE]
             \in [agent: BOOLEAN, banned: BOOLEAN, applied: BOOLEAN]
        /\ [api EXCEPT !.applied = FALSE] \in [agent: BOOLEAN, banned: BOOLEAN, applied: BOOLEAN]
        /\ [api EXCEPT !.banned = TRUE] \in [agent: BOOLEAN, banned: BOOLEAN, applied: BOOLEAN]
    BY DEF Entitled, CauseInv
  <2>. QED
    BY <1>1, <1>2, <2>1 DEF Approve, Reject, Ban
<1>3. CASE Restart
  <2>1. HandlersOK' /\ \A s \in Slots : Caused(running'[s])
    BY <1>3, Kept DEF Entitled, Restart, HandlersOK, Caused
  <2>2. /\ since' \in [approved: BOOLEAN, banned: BOOLEAN] /\ api' = api
        /\ since'.approved <=> api.agent /\ ~api.banned
        /\ since'.banned <=> api.banned
        /\ subm' = END /\ registered' = let_in /\ let_in' = let_in /\ banned' = FALSE
    BY <1>3 DEF Entitled, Restart, CauseInv
  <2>3. \A s \in Slots : Caused(running[s])'
    BY <1>3, Kept DEF Entitled, Restart, Caused
  <2>. QED
    BY <2>1, <2>2, <2>3 DEF Entitled, CauseInv, ApprovedByAPI
<1>. QED
  BY <1>2, <1>3

LEMMA CauseNext == CauseInv /\ [Next]_vars => CauseInv'
<1>. SUFFICES ASSUME CauseInv, [Next]_vars PROVE CauseInv'
  OBVIOUS
<1>1. CASE UNCHANGED vars
  BY <1>1 DEF Entitled, vars, CauseInv, HandlersOK, Caused, ApprovedByAPI
<1>. QED
  BY <1>1, ReceiveCause, HandlerCause, OutsideCause DEF Next

(* The inductive invariant holds in every reachable state.                  *)
THEOREM CauseInvariant == Spec => []CauseInv
<1>. QED
  BY CauseInit, CauseNext, PTL DEF Spec

(* The bot takes someone for banned only if the API has banned them since   *)
(* the bot started (submission_client.py submit: 403), in both modes and    *)
(* for any number of updates handled at once.                               *)
THEOREM BansHaveCause == Spec => []BanHasCause
<1>1. CauseInv => BanHasCause
  BY DEF Entitled, CauseInv, BanHasCause
<1>. QED
  BY <1>1, CauseInvariant, PTL

(* Only someone the API has held for an approved agent since the bot        *)
(* started, or whom the settings let in, gets into the submit conversation  *)
(* (submit.py start, _sync_agent_from_api; agents.py is_agent), in both     *)
(* modes and for any number of updates handled at once.                     *)
THEOREM ReportersApproved == Spec => []ReportersWereApproved
<1>1. CauseInv => ReportersWereApproved
  BY DEF CauseInv, Entitled, ReportersWereApproved
<1>. QED
  BY <1>1, CauseInvariant, PTL

-----------------------------------------------------------------------------
(* What is sent is what was shown.                                          *)

IsDraft(d) ==
  d = [consent |-> d.consent, market |-> d.market, label |-> d.label,
       pending |-> d.pending, voice |-> d.voice, commodity |-> d.commodity,
       price |-> d.price]

IsForm(f) ==
  f = [present |-> f.present, filled |-> f.filled, market |-> f.market,
       label |-> f.label, pending |-> f.pending]

(* In state "CONFIRM" of submit the draft, unless it was taken away, is what *)
(* the summary sh shows.                                                    *)
DraftShown(at, d, sh) == at = "CONFIRM" => ~Complete(d) \/ sh = Summary(Report(d))

SubmitKept(h, at, d, sh) ==
  /\ h.conv = "submit" /\ h.pc \in {"answering", "syncing"} =>
       /\ h.at = at /\ SubmitTakes(at, h.upd) /\ (h.upd.kind = "tap" => h.upd.key # "nothing")
       /\ h.upd.key = "confirm" => h.seen = sh
  /\ h.conv = "submit" /\ h.pc = "replying" => DraftShown(h.ret, d, h.report)
  /\ h.conv = "submit" /\ h.pc = "posting" => Summary(h.report) = h.seen

(* The effect of any handler of submit: in "CONFIRM" the draft is only       *)
(* taken away, and only a complete one is sent.                             *)
LEMMA SubmitEffectKeeps ==
  ASSUME NEW at, NEW u, NEW d, NEW b, NEW sh, IsDraft(d), DraftShown(at, d, sh),
         SubmitTakes(at, u), (u.kind = "tap" => u.key # "nothing")
  PROVE  /\ IsDraft(SubmitEffect(at, u, d, b).draft)
         /\ DraftShown(at, SubmitEffect(at, u, d, b).draft, sh)
         /\ SubmitEffect(at, u, d, b).ret = "post" =>
              at = "CONFIRM" /\ u.key = "confirm" /\ Complete(d)
<1>. DEFINE e == SubmitEffect(at, u, d, b)
<1>. SUFFICES /\ IsDraft(e.draft) /\ DraftShown(at, e.draft, sh)
              /\ e.ret = "post" => at = "CONFIRM" /\ u.key = "confirm" /\ Complete(d)
  OBVIOUS
<1>1. CASE u.kind = "start"
  <2>1. e = Effect(EmptyDraft, "CONSENT")
    BY <1>1 DEF SubmitEffect, Started
  <2>. HIDE DEF e
  <2>. QED
    BY <2>1 DEF Effect, IsDraft, EmptyDraft, DraftShown, Complete
<1>2. CASE u.kind # "start" /\ (u.kind = "cancel" \/ u.key = "cancel")
  <2>1. e = Effect(EmptyDraft, END)
    BY <1>2 DEF SubmitEffect, Cancelled
  <2>. HIDE DEF e
  <2>. QED
    BY <2>1 DEF Effect, IsDraft, EmptyDraft, DraftShown, Complete, END
<1>3. CASE u.kind # "start" /\ u.kind # "cancel" /\ u.key # "cancel"
  <2>1. /\ at \in {"CONSENT", "ENTRY_MODE", "MARKET", "MARKET_OTHER",
                   "MARKET_OTHER_CONFIRM", "COMMODITY", "PRICE", "CONFIRM"}
        /\ at = "CONFIRM" => u.key = "confirm"
    BY <1>3 DEF SubmitTakes, KeyOf
  <2>2. CASE at = "CONFIRM"
    <3>1. e = OnConfirm(d, u.val)
      BY <1>3, <2>2 DEF SubmitEffect, InState
    <3>2. e.draft = d /\ (e.ret = "post" => Complete(d))
      BY <3>1 DEF OnConfirm, Effect, KeyMissing
    <3>. HIDE DEF e
    <3>. QED
      BY <2>1, <2>2, <3>2
  <2>3. CASE at = "CONSENT"
    <3>1. e = OnConsent(d, u.val, b)
      BY <1>3, <2>3 DEF SubmitEffect, InState
    <3>. HIDE DEF e
    <3>. QED
      BY <2>3, <3>1 DEF OnConsent, Effect, IsDraft, DraftShown, END
  <2>4. CASE at = "ENTRY_MODE"
    <3>1. e = OnEntryMode(d, u.val)
      BY <1>3, <2>4 DEF SubmitEffect, InState
    <3>. HIDE DEF e
    <3>. QED
      BY <2>4, <3>1 DEF OnEntryMode, Effect, Stay, IsDraft, DraftShown
  <2>5. CASE at = "MARKET"
    <3>1. e = OnMarket(d, u.val)
      BY <1>3, <2>5 DEF SubmitEffect, InState
    <3>. HIDE DEF e
    <3>. QED
      BY <2>5, <3>1 DEF OnMarket, Effect, IsDraft, DraftShown
  <2>6. CASE at = "MARKET_OTHER"
    <3>1. \/ e = OnOtherMarketText(d, u.val) \/ e = OnVoiceNote(d, u.val)
          \/ e = OnOtherMarketLang(d, u.val)
      BY <1>3, <2>6 DEF SubmitEffect, InState, SubmitTakes
    <3>. HIDE DEF e
    <3>2. CASE e = OnOtherMarketText(d, u.val)
      BY <2>6, <3>2 DEF OnOtherMarketText, Effect, Stay, IsDraft, DraftShown
    <3>3. CASE e = OnVoiceNote(d, u.val)
      BY <2>6, <3>3 DEF OnVoiceNote, Effect, Stay, IsDraft, DraftShown
    <3>4. CASE e = OnOtherMarketLang(d, u.val)
      BY <2>6, <3>4 DEF OnOtherMarketLang, Effect, IsDraft, DraftShown
    <3>. QED
      BY <3>1, <3>2, <3>3, <3>4
  <2>7. CASE at = "MARKET_OTHER_CONFIRM"
    <3>1. e = OnVoiceConfirm(d, u.val)
      BY <1>3, <2>7 DEF SubmitEffect, InState
    <3>. HIDE DEF e
    <3>. QED
      BY <2>7, <3>1 DEF OnVoiceConfirm, Effect, Stay, IsDraft, DraftShown
  <2>8. CASE at = "COMMODITY"
    <3>1. e = OnCommodity(d, u.val)
      BY <1>3, <2>8 DEF SubmitEffect, InState
    <3>. HIDE DEF e
    <3>. QED
      BY <2>8, <3>1 DEF OnCommodity, Effect, IsDraft, DraftShown
  <2>9. CASE at = "PRICE"
    <3>1. e = OnPrice(d, u.val)
      BY <1>3, <2>9 DEF SubmitEffect, InState
    <3>. HIDE DEF e
    <3>. QED
      BY <2>9, <3>1 DEF OnPrice, Effect, Stay, KeyMissing, IsDraft, DraftShown
  <2>. QED
    BY <2>1, <2>2, <2>3, <2>4, <2>5, <2>6, <2>7, <2>8, <2>9
<1>. QED
  BY <1>1, <1>2, <1>3

BeforeMarket == {"FULL_NAME", "PHONE", "CITY", "CITY_OTHER", "SUBCITY", "SUBCITY_OTHER", "MARKET"}
AfterMarket == {"FREQUENCY", "LANGUAGES", "CONSENT", "CONFIRM"}

(* A label goes with the other market, and is filled where the market was    *)
(* chosen; in "CONFIRM" the form, unless it was taken away, names the market *)
(* the summary shows.                                                       *)
FormShown(at, f, sh) ==
  /\ at \in BeforeMarket => f.label = None
  /\ f.label # None => f.market = Other
  /\ at \in AfterMarket => f.market # Other \/ f.label # None
  /\ at = "CONFIRM" => ~FormComplete(f) \/ sh.market = SummaryMarket(f)

(* A text that is one.                                                      *)
IsHeard(u) ==
  /\ (u.kind = "tap" => u.key # "nothing")
  /\ IsText(u) => u.val # None

ApplyKept(h, at, f, sh) ==
  /\ h.conv = "apply" /\ h.pc \in {"answering", "syncing"} =>
       /\ h.at = at /\ ApplyTakes(at, h.upd) /\ IsHeard(h.upd)
       /\ h.upd.key = "apply_confirm" => h.seen = sh
  /\ h.conv = "apply" /\ h.pc = "replying" => FormShown(h.ret, f, h.report)
  /\ h.conv = "apply" /\ h.pc = "posting" /\ h.whole => h.report.market = h.seen.market
  /\ h.conv = "apply" /\ h.pc = "stored" => h.report.market = h.seen.market
  /\ h.conv = "apply" => h.pc # "triaging"

LEMMA NoFormShown == \A at, sh : IsForm(NoForm) /\ FormShown(at, NoForm, sh)
BY FlowAssumption DEF IsForm, NoForm, FormShown, FormComplete

(* The effect of any handler of apply: the form goes with the state it was   *)
(* in and with the state it is to be in, and in "CONFIRM" it is only taken   *)
(* away; and only from there it is sent.                                    *)
LEMMA ApplyEffectKeeps ==
  ASSUME NEW at, NEW u, NEW f, NEW sh, IsForm(f), FormShown(at, f, sh),
         ApplyTakes(at, u), IsHeard(u)
  PROVE  LET e == ApplyEffect(at, u, f)
         IN /\ IsForm(e.draft) /\ FormShown(at, e.draft, sh)
            /\ FormShown(e.ret, e.draft, MarketOnly(SummaryMarket(e.draft)))
            /\ e.ret = "post" => at = "CONFIRM" /\ u.key = "apply_confirm"
<1>. DEFINE e == ApplyEffect(at, u, f)
            Right(x) == /\ IsForm(x.draft) /\ FormShown(at, x.draft, sh)
                        /\ FormShown(x.ret, x.draft, MarketOnly(SummaryMarket(x.draft)))
                        /\ x.ret = "post" => at = "CONFIRM" /\ u.key = "apply_confirm"
<1>. SUFFICES Right(e)
  OBVIOUS
<1>0. \A m : MarketOnly(m).market = m
  BY DEF MarketOnly, NoReport
<1>1. CASE u.kind = "apply"
  <2>1. e = Effect(NewForm, "FULL_NAME")
    BY <1>1 DEF ApplyEffect, ApplyStarted
  <2>2. /\ IsForm(NewForm) /\ NewForm.label = None /\ NewForm.market = None
        /\ ~FormComplete(NewForm) /\ None # Other
    <3>. DEFINE none == NoForm
    <3>1. none = [present |-> FALSE, filled |-> {}, market |-> None,
                  label |-> None, pending |-> None]
      BY DEF NoForm
    <3>2. NewForm = [none EXCEPT !.present = TRUE]
      BY DEF NewForm
    <3>. HIDE DEF none
    <3>3. NewForm = [present |-> TRUE, filled |-> {}, market |-> None,
                     label |-> None, pending |-> None]
      BY <3>1, <3>2
    <3>. QED
      BY <3>3, FlowAssumption DEF IsForm, FormComplete
  <2>. HIDE DEF e
  <2>. QED
    BY <2>1, <2>2 DEF Effect, FormShown, AfterMarket, BeforeMarket
<1>2. CASE u.kind # "apply" /\ (u.kind = "cancel" \/ u.key = "apply_cancel")
  <2>1. e = Effect(NoForm, END)
    BY <1>2 DEF ApplyEffect, ApplyCancelled
  <2>. HIDE DEF e
  <2>. QED
    BY <2>1, NoFormShown DEF Effect, END
<1>3. CASE u.kind # "apply" /\ u.kind # "cancel" /\ u.key # "apply_cancel"
  <2>0. /\ at \in {"FULL_NAME", "PHONE", "CITY", "CITY_OTHER", "SUBCITY", "SUBCITY_OTHER",
                   "MARKET", "MARKET_OTHER", "MARKET_OTHER_CONFIRM",
                   "FREQUENCY", "LANGUAGES", "CONSENT", "CONFIRM"}
        /\ at = "CONFIRM" => u.key = "apply_confirm"
    BY <1>3 DEF ApplyTakes, ApplyKeyOf, IsHeard
  <2>. USE DEF FormShown, BeforeMarket, AfterMarket, Effect, IsForm, FormComplete, SummaryMarket
  <2>1. CASE at = "FULL_NAME"
    <3>1. e = OnFullName(f, u.val)
      BY <1>3, <2>1 DEF ApplyEffect, InApplyState
    <3>. HIDE DEF e
    <3>. QED
      BY <1>0, <2>0, <2>1, <3>1 DEF OnFullName, Held, Stay
  <2>2. CASE at = "PHONE"
    <3>1. e = OnPhone(f, u.val)
      BY <1>3, <2>2 DEF ApplyEffect, InApplyState
    <3>. HIDE DEF e
    <3>. QED
      BY <1>0, <2>0, <2>2, <3>1 DEF OnPhone, Stay, NeedForm, KeyMissing
  <2>3. CASE at = "CITY"
    <3>1. e = OnCity(f, u.val)
      BY <1>3, <2>3 DEF ApplyEffect, InApplyState
    <3>. HIDE DEF e
    <3>. QED
      BY <1>0, <2>0, <2>3, <3>1 DEF OnCity, NeedForm, KeyMissing
  <2>4. CASE at = "CITY_OTHER"
    <3>1. e = OnCityText(f, u.val)
      BY <1>3, <2>4 DEF ApplyEffect, InApplyState
    <3>. HIDE DEF e
    <3>. QED
      BY <1>0, <2>0, <2>4, <3>1 DEF OnCityText, Stay, NeedForm, KeyMissing
  <2>5. CASE at = "SUBCITY"
    <3>1. e = OnSubcity(f, u.val)
      BY <1>3, <2>5 DEF ApplyEffect, InApplyState
    <3>. HIDE DEF e
    <3>. QED
      BY <1>0, <2>0, <2>5, <3>1 DEF OnSubcity, NeedForm, KeyMissing
  <2>6. CASE at = "SUBCITY_OTHER"
    <3>1. e = OnSubcityText(f, u.val)
      BY <1>3, <2>6 DEF ApplyEffect, InApplyState
    <3>. HIDE DEF e
    <3>. QED
      BY <1>0, <2>0, <2>6, <3>1 DEF OnSubcityText, NeedForm, KeyMissing
  <2>7. CASE at = "MARKET"
    <3>1. e = OnApplyMarket(f, u.val)
      BY <1>3, <2>7 DEF ApplyEffect, InApplyState
    <3>. HIDE DEF e
    <3>. QED
      BY <1>0, <2>0, <2>7, <3>1 DEF OnApplyMarket, NeedForm, KeyMissing
  <2>8. CASE at = "MARKET_OTHER"
    <3>1. \/ e = OnApplyOtherText(f, u.val) /\ u.val # None
          \/ e = OnApplyVoiceNote(f, u.val) \/ e = OnApplyOtherMode(f, u.val)
      BY <1>3, <2>8 DEF ApplyEffect, InApplyState, ApplyTakes, IsHeard
    <3>. HIDE DEF e
    <3>2. CASE e = OnApplyOtherText(f, u.val) /\ u.val # None
      BY <2>8, <3>2 DEF OnApplyOtherText, Held, Stay, NeedForm, KeyMissing
    <3>3. CASE e = OnApplyVoiceNote(f, u.val)
      BY <2>8, <3>3 DEF OnApplyVoiceNote, Held, Stay, NeedForm, KeyMissing
    <3>4. CASE e = OnApplyOtherMode(f, u.val)
      BY <2>8, <3>4 DEF OnApplyOtherMode, Held, Stay, NeedForm, KeyMissing
    <3>. QED
      BY <3>1, <3>2, <3>3, <3>4
  <2>9. CASE at = "MARKET_OTHER_CONFIRM"
    <3>1. e = OnApplyVoiceConfirm(f, u.val)
      BY <1>3, <2>9 DEF ApplyEffect, InApplyState
    <3>. HIDE DEF e
    <3>. QED
      BY <1>0, <2>0, <2>9, <3>1 DEF OnApplyVoiceConfirm, Held
  <2>10. CASE at = "FREQUENCY"
    <3>1. e = OnFrequency(f, u.val)
      BY <1>3, <2>10 DEF ApplyEffect, InApplyState
    <3>. HIDE DEF e
    <3>. QED
      BY <1>0, <2>0, <2>10, <3>1 DEF OnFrequency, NeedForm, KeyMissing
  <2>11. CASE at = "LANGUAGES"
    <3>1. e = OnLanguages(f, u.val)
      BY <1>3, <2>11 DEF ApplyEffect, InApplyState
    <3>. HIDE DEF e
    <3>. QED
      BY <1>0, <2>0, <2>11, <3>1 DEF OnLanguages, Held, Stay
  <2>12. CASE at = "CONSENT"
    <3>1. e = OnApplyConsent(f, u.val)
      BY <1>3, <2>12 DEF ApplyEffect, InApplyState
    <3>. HIDE DEF e
    <3>. QED
      BY <1>0, <2>0, <2>12, <3>1 DEF OnApplyConsent, NeedForm, KeyMissing
  <2>13. CASE at = "CONFIRM"
    <3>1. e = OnApplyConfirm(f, u.val)
      BY <1>3, <2>13 DEF ApplyEffect, InApplyState
    <3>. HIDE DEF e
    <3>. QED
      BY <1>0, <2>0, <2>13, <3>1 DEF OnApplyConfirm
  <2>. QED
    BY <2>0, <2>1, <2>2, <2>3, <2>4, <2>5, <2>6, <2>7, <2>8, <2>9, <2>10, <2>11, <2>12, <2>13
<1>. QED
  BY <1>1, <1>2, <1>3

(* In polling mode: one handler at a time, which finds the conversations as  *)
(* they were when its update arrived.                                       *)
PollInv ==
  /\ HandlersOK
  /\ \A s, t \in Slots : running[s] # Idle /\ running[t] # Idle => s = t
  /\ IsDraft(draft) /\ IsForm(form)
  /\ shown = [c \in {"submit", "apply"} |-> shown[c]]
  /\ DraftShown(subm, draft, shown["submit"])
  /\ FormShown(appl, form, shown["apply"])
  /\ \A s \in Slots : /\ SubmitKept(running[s], subm, draft, shown["submit"])
                      /\ ApplyKept(running[s], appl, form, shown["apply"])

ShownInv == mode = "polling" => PollInv

Alone(s) == \A t \in Slots \ {s} : running[t] = Idle

LEMMA ShownInit == Init => ShownInv
<1>. SUFFICES ASSUME Init PROVE PollInv
  BY DEF ShownInv
<1>1. IsDraft(draft) /\ DraftShown(subm, draft, shown["submit"])
  BY DEF Init, IsDraft, EmptyDraft, DraftShown, END
<1>2. IsForm(form) /\ FormShown(appl, form, shown["apply"])
  BY NoFormShown DEF Init
<1>3. \A s \in Slots : IsHandler(running[s]) /\ running[s] = Idle
  BY Kept DEF Init
<1>4. \A s \in Slots : /\ SubmitKept(running[s], subm, draft, shown["submit"])
                       /\ ApplyKept(running[s], appl, form, shown["apply"])
  BY <1>3, Kept DEF SubmitKept, ApplyKept
<1>. QED
  BY <1>1, <1>2, <1>3, <1>4 DEF Init, PollInv, HandlersOK

LEMMA PollMoves ==
  ASSUME PollInv, NEW s \in Slots, NEW h, running' = [running EXCEPT ![s] = h],
         IsHandler(h), Alone(s),
         IsDraft(draft'), IsForm(form'), shown' = [c \in {"submit", "apply"} |-> shown'[c]],
         DraftShown(subm', draft', shown'["submit"]),
         FormShown(appl', form', shown'["apply"]),
         SubmitKept(h, subm', draft', shown'["submit"]),
         ApplyKept(h, appl', form', shown'["apply"])
  PROVE  PollInv'
<1>1. /\ running'[s] = h /\ \A t \in Slots \ {s} : running'[t] = Idle
      /\ running' = [t \in Slots |-> running'[t]]
  BY DEF PollInv, HandlersOK, Alone
<1>2. HandlersOK'
  BY <1>1, Kept DEF HandlersOK
<1>3. ASSUME NEW t \in Slots
      PROVE  /\ SubmitKept(running'[t], subm', draft', shown'["submit"])
             /\ ApplyKept(running'[t], appl', form', shown'["apply"])
  BY <1>1, Kept DEF SubmitKept, ApplyKept
<1>4. \A r, t \in Slots : running'[r] # Idle /\ running'[t] # Idle => r = t
  BY <1>1
<1>. QED
  BY <1>2, <1>3, <1>4 DEF PollInv

(* What a handler must bring to change user_data.                           *)
Ready(h) ==
  /\ h.conv = "submit" =>
       /\ h.at = subm /\ SubmitTakes(subm, h.upd) /\ (h.upd.kind = "tap" => h.upd.key # "nothing")
       /\ h.upd.key = "confirm" => h.seen = shown["submit"]
  /\ h.conv = "apply" =>
       /\ h.at = appl /\ ApplyTakes(appl, h.upd) /\ IsHeard(h.upd)
       /\ h.upd.key = "apply_confirm" => h.seen = shown["apply"]

LEMMA RunShown ==
  ASSUME PollInv, NEW s \in Slots, Alone(s), NEW h, NEW known, Run(s, h, known), Ready(h)
  PROVE  PollInv'
<1>1. /\ subm' = subm /\ appl' = appl /\ shown' = shown
      /\ IsDraft(draft) /\ IsForm(form)
      /\ shown' = [c \in {"submit", "apply"} |-> shown'[c]]
      /\ DraftShown(subm, draft, shown["submit"])
      /\ FormShown(appl, form, shown["apply"])
  BY DEF Run, PollInv
<1>2. CASE RunSubmit(s, h, known)
  <2>1. h.conv = "submit" /\ form' \in {form, NoForm}
    BY <1>2 DEF RunSubmit
  <2>2. IsForm(form') /\ FormShown(appl', form', shown'["apply"])
    BY <1>1, <2>1, NoFormShown
  <2>3. ASSUME NEW e, AfterSubmit(s, h, e), IsDraft(e.draft),
               DraftShown(subm, e.draft, shown["submit"]),
               e.ret = "post" => Summary(Report(draft)) = h.seen
        PROVE  PollInv'
    <3>. DEFINE next == CASE e.ret = "raise" -> Idle
                          [] e.ret = "post" /\ ~banned -> Posting(h, Report(draft), TRUE)
                          [] e.ret = "post" /\ banned ->
                               Replying("submit", ClearLater(draft), NoReport)
                          [] OTHER -> Replying("submit", e, Summary(Report(e.draft)))
    <3>1. running' = [running EXCEPT ![s] = next] /\ draft' = e.draft
      BY <2>3 DEF AfterSubmit
    <3>2. ClearLater(draft).ret = END
      BY DEF ClearLater, Effect
    <3>3. IsHandler(next) /\ SubmitKept(next, subm', draft', shown'["submit"])
          /\ ApplyKept(next, appl', form', shown'["apply"])
      <4>1. CASE e.ret = "raise"
        BY <4>1, Kept DEF SubmitKept, ApplyKept
      <4>2. CASE e.ret = "post" /\ ~banned
        <5>. DEFINE whole == TRUE
        <5>1. next = Posting(h, Report(draft), whole)
          BY <4>2
        <5>. HIDE DEF next, whole
        <5>2. /\ IsHandler(next) /\ next.pc = "posting" /\ next.conv = h.conv
              /\ next.report = Report(draft) /\ next.seen = h.seen
          BY <5>1, Posted
        <5>. QED
          BY <2>1, <2>3, <4>2, <5>2 DEF SubmitKept, ApplyKept
      <4>3. CASE e.ret = "post" /\ banned
        BY <3>2, <4>3, Kept DEF SubmitKept, ApplyKept, DraftShown, END
      <4>4. CASE e.ret \notin {"raise", "post"}
        <5>1. next = Replying("submit", e, Summary(Report(e.draft)))
          BY <4>4
        <5>. HIDE DEF next
        <5>2. /\ IsHandler(next) /\ next.pc = "replying" /\ next.conv = "submit"
              /\ next.ret = e.ret
              /\ e.ret = "CONFIRM" => next.report = Summary(Report(e.draft))
          BY <5>1, Kept
        <5>. QED
          BY <3>1, <5>2 DEF SubmitKept, ApplyKept, DraftShown
      <4>. QED
        BY <4>1, <4>2, <4>3, <4>4
    <3>. HIDE DEF next
    <3>. QED
      BY <1>1, <2>2, <2>3, <3>1, <3>3, PollMoves
  <2>4. CASE h.upd.kind = "start" /\ DeclineStart(known)
    <3>1. AfterSubmit(s, h, Effect(draft, END))
      BY <1>2, <2>4 DEF RunSubmit
    <3>2. Effect(draft, END).draft = draft /\ Effect(draft, END).ret = END
      BY DEF Effect
    <3>. QED
      BY <1>1, <2>3, <3>1, <3>2 DEF END
  <2>5. CASE ~(h.upd.kind = "start" /\ DeclineStart(known))
    <3>1. AfterSubmit(s, h, SubmitEffect(subm, h.upd, draft, banned))
      BY <1>2, <2>1, <2>5 DEF RunSubmit, Ready
    <3>2. /\ SubmitTakes(subm, h.upd) /\ (h.upd.kind = "tap" => h.upd.key # "nothing")
          /\ h.upd.key = "confirm" => h.seen = shown["submit"]
      BY <2>1 DEF Ready
    <3>3. /\ IsDraft(SubmitEffect(subm, h.upd, draft, banned).draft)
          /\ DraftShown(subm, SubmitEffect(subm, h.upd, draft, banned).draft, shown["submit"])
          /\ SubmitEffect(subm, h.upd, draft, banned).ret = "post" =>
               subm = "CONFIRM" /\ h.upd.key = "confirm" /\ Complete(draft)
      BY <1>1, <3>2, SubmitEffectKeeps
    <3>4. SubmitEffect(subm, h.upd, draft, banned).ret = "post" => Summary(Report(draft)) = h.seen
      BY <1>1, <3>2, <3>3 DEF DraftShown
    <3>. QED
      BY <2>3, <3>1, <3>3, <3>4
  <2>. QED
    BY <2>4, <2>5
<1>3. CASE RunApply(s, h, known)
  <2>1. h.conv = "apply" /\ draft' = draft
    BY <1>3 DEF RunApply
  <2>2. ASSUME NEW e, AfterApply(s, h, e), IsForm(e.draft),
               FormShown(appl, e.draft, shown["apply"]),
               FormShown(e.ret, e.draft, MarketOnly(SummaryMarket(e.draft))),
               e.ret = "post" => appl = "CONFIRM" /\ h.seen = shown["apply"]
        PROVE  PollInv'
    <3>. DEFINE next == CASE e.ret = "raise" -> Idle
                          [] e.ret = "post" -> Posting(h, MarketOnly(AppliedMarket(form)),
                                                       FormComplete(form))
                          [] OTHER -> Replying("apply", e, MarketOnly(SummaryMarket(e.draft)))
    <3>1. running' = [running EXCEPT ![s] = next] /\ form' = e.draft
      BY <2>2 DEF AfterApply
    <3>2. IsHandler(next) /\ SubmitKept(next, subm', draft', shown'["submit"])
          /\ ApplyKept(next, appl', form', shown'["apply"])
      <4>1. CASE e.ret = "raise"
        BY <4>1, Kept DEF SubmitKept, ApplyKept
      <4>2. CASE e.ret = "post"
        <5>1. MarketOnly(AppliedMarket(form)).market = AppliedMarket(form)
          BY DEF MarketOnly, NoReport
        <5>2. FormComplete(form) => AppliedMarket(form) = h.seen.market
          BY <1>1, <2>2, <4>2 DEF FormShown, AfterMarket, AppliedMarket, SummaryMarket
        <5>. QED
          BY <2>1, <4>2, <5>1, <5>2, Kept DEF SubmitKept, ApplyKept
      <4>3. CASE e.ret \notin {"raise", "post"}
        <5>1. next = Replying("apply", e, MarketOnly(SummaryMarket(e.draft)))
          BY <4>3
        <5>. HIDE DEF next
        <5>2. /\ IsHandler(next) /\ next.pc = "replying" /\ next.conv = "apply"
              /\ next.ret = e.ret
              /\ e.ret = "CONFIRM" => next.report = MarketOnly(SummaryMarket(e.draft))
          BY <5>1, Kept
        <5>3. FormShown(next.ret, form', next.report)
          BY <2>2, <3>1, <5>2 DEF FormShown
        <5>. QED
          BY <5>2, <5>3 DEF SubmitKept, ApplyKept
      <4>. QED
        BY <4>1, <4>2, <4>3
    <3>. HIDE DEF next
    <3>. QED
      BY <1>1, <2>1, <2>2, <3>1, <3>2, PollMoves
  <2>3. CASE h.upd.kind = "apply" /\ known
    <3>1. AfterApply(s, h, Effect(form, END))
      BY <1>3, <2>3 DEF RunApply
    <3>2. Effect(form, END).draft = form /\ Effect(form, END).ret = END
      BY DEF Effect
    <3>3. FormShown(END, form, MarketOnly(SummaryMarket(form)))
      BY <1>1 DEF FormShown, END, BeforeMarket, AfterMarket
    <3>. QED
      BY <1>1, <2>2, <3>1, <3>2, <3>3 DEF END
  <2>4. CASE ~(h.upd.kind = "apply" /\ known)
    <3>1. AfterApply(s, h, ApplyEffect(appl, h.upd, form))
      BY <1>3, <2>1, <2>4 DEF RunApply, Ready
    <3>2. /\ ApplyTakes(appl, h.upd) /\ IsHeard(h.upd)
          /\ h.upd.key = "apply_confirm" => h.seen = shown["apply"]
      BY <2>1 DEF Ready
    <3>. QED
      BY <1>1, <2>2, <3>1, <3>2, ApplyEffectKeeps
  <2>. QED
    BY <2>3, <2>4
<1>4. ASSUME NEW next, running' = [running EXCEPT ![s] = next], UNCHANGED <<draft, form>>,
             IsHandler(next), next.conv \in {"info", "invite"}
      PROVE  PollInv'
  <2>1. /\ SubmitKept(next, subm', draft', shown'["submit"])
        /\ ApplyKept(next, appl', form', shown'["apply"])
    BY <1>4 DEF SubmitKept, ApplyKept
  <2>. QED
    BY <1>1, <1>4, <2>1, PollMoves
<1>5. CASE RunInfo(s, h, known)
  <2>1. running' = [running EXCEPT ![s] = Replying("info", Effect(draft, END), NoReport)]
        /\ UNCHANGED <<draft, form>>
    BY <1>5 DEF RunInfo
  <2>2. /\ IsHandler(Replying("info", Effect(draft, END), NoReport))
        /\ Replying("info", Effect(draft, END), NoReport).conv = "info"
    BY Kept
  <2>. QED
    BY <1>4, <2>1, <2>2
<1>6. CASE RunInvite(s, h)
  <2>. DEFINE whole == FALSE
  <2>1. running' = [running EXCEPT ![s] = Posting(h, NoReport, whole)]
        /\ UNCHANGED <<draft, form>> /\ h.conv = "invite"
    BY <1>6 DEF RunInvite
  <2>. HIDE DEF whole
  <2>2. /\ IsHandler(Posting(h, NoReport, whole))
        /\ Posting(h, NoReport, whole).conv = h.conv
    BY Posted
  <2>. QED
    BY <1>4, <2>1, <2>2
<1>. QED
  BY <1>2, <1>3, <1>5, <1>6 DEF Run

LEMMA Heard == ASSUME NEW u \in Updates PROVE IsHeard(u)
<1>0. \A kind, key, val : /\ Update(kind, key, val).kind = kind
                          /\ Update(kind, key, val).key = key /\ Update(kind, key, val).val = val
  BY DEF Update
<1>1. ASSUME u \in SubmitTaps \union ApplyTaps
      PROVE  u.key # "nothing" /\ u.kind = "tap"
  BY <1>0, <1>1 DEF SubmitTaps, ApplyTaps, ProfileTaps, VoiceTaps
<1>2. ASSUME NEW n \in Names, u = Update("start", "button", n)
      PROVE  u.kind # "tap" /\ u.val # None
  BY <1>0, <1>2, FlowAssumption
<1>3. ASSUME NEW t \in Texts, u = Update("text", None, t)
      PROVE  u.kind # "tap" /\ u.val # None
  BY <1>0, <1>3, FlowAssumption DEF Texts, Labels
<1>. QED
  BY <1>0, <1>1, <1>2, <1>3 DEF Updates, IsHeard, IsText

LEMMA ReceiveShown ==
  ASSUME PollInv, mode = "polling", NEW s \in Slots, NEW u \in Updates,
         Receive(s, u) \/ ReceiveUnknown(s, u) \/ ReceiveAndRun(s, u)
  PROVE  PollInv'
<1>1. Alone(s)
  BY DEF Receive, ReceiveUnknown, ReceiveAndRun, Free, Alone
<1>2. /\ IsHandler(Handler(u)) /\ Handler(u).conv = ConvOf(u) /\ Handler(u).upd = u
      /\ Handler(u).at = IF ConvOf(u) = "apply" THEN appl ELSE subm
      /\ u.key \in {"confirm", "apply_confirm"} => Handler(u).seen = shown[ConvOf(u)]
  BY Given
<1>3. IsHeard(u) /\ Ready(Handler(u))
  BY <1>2, Heard DEF Ready, ConvOf, IsHeard
<1>4. ASSUME NEW pc \in {"answering", "syncing"}, UNCHANGED convs,
             running' = [running EXCEPT ![s] = At(Handler(u), pc)]
      PROVE  PollInv'
  <2>. DEFINE h == At(Handler(u), pc)
  <2>1. /\ IsHandler(h) /\ h.pc = pc /\ h.conv = ConvOf(u) /\ h.upd = u
        /\ h.at = Handler(u).at /\ h.seen = Handler(u).seen
    BY <1>2, GoesOn
  <2>2. running' = [running EXCEPT ![s] = h]
    BY <1>4
  <2>. HIDE DEF h
  <2>3. SubmitKept(h, subm, draft, shown["submit"]) /\ ApplyKept(h, appl, form, shown["apply"])
    BY <1>2, <1>3, <1>4, <2>1 DEF SubmitKept, ApplyKept, Ready
  <2>4. UNCHANGED <<subm, appl, draft, form, shown>>
    BY <1>4 DEF convs
  <2>. QED
    BY <1>1, <2>1, <2>2, <2>3, <2>4, PollMoves DEF PollInv
<1>5. CASE Receive(s, u)
  BY <1>4, <1>5 DEF Receive, At
<1>6. CASE ReceiveUnknown(s, u)
  BY <1>4, <1>6 DEF ReceiveUnknown, At
<1>7. CASE ReceiveAndRun(s, u)
  BY <1>1, <1>3, <1>7, RunShown DEF ReceiveAndRun
<1>. QED
  BY <1>5, <1>6, <1>7

(* What happens to user_data after the answers are sent.                     *)
LEMMA LaterShown ==
  ASSUME NEW h, Later(h), IsDraft(draft), IsForm(form), NEW at, NEW sh,
         DraftShown(at, draft, sh)
  PROVE  IsDraft(draft') /\ DraftShown(at, draft', sh) /\ form' \in {form, NoForm}
<1>1. CASE h.later = "clear"
  <2>1. draft' = EmptyDraft /\ form' = NoForm
    BY <1>1 DEF Later
  <2>. QED
    BY <2>1 DEF IsDraft, EmptyDraft, DraftShown, Complete
<1>2. CASE h.later = "drop voice"
  <2>1. draft' = [draft EXCEPT !.voice = FALSE] /\ form' = form
    BY <1>2 DEF Later
  <2>2. draft' = [consent |-> draft.consent, market |-> draft.market, label |-> draft.label,
                  pending |-> draft.pending, voice |-> FALSE,
                  commodity |-> draft.commodity, price |-> draft.price]
    BY <2>1 DEF IsDraft
  <2>3. /\ IsDraft(draft') /\ draft'.consent = draft.consent /\ draft'.market = draft.market
        /\ draft'.label = draft.label /\ draft'.commodity = draft.commodity
        /\ draft'.price = draft.price
    BY <2>2 DEF IsDraft
  <2>. QED
    BY <2>1, <2>3 DEF DraftShown, Complete, Report
<1>3. CASE h.later \notin {"clear", "drop voice"}
  <2>1. draft' = draft /\ form' \in {form, NoForm}
    BY <1>3 DEF Later
  <2>. QED
    BY <2>1
<1>. QED
  BY <1>1, <1>2, <1>3

LEMMA RepliedShown ==
  ASSUME PollInv, NEW s \in Slots, Alone(s), Replied(s)
  PROVE  PollInv'
<1>. DEFINE h == running[s]
<1>1. /\ IsDraft(draft) /\ IsForm(form)
      /\ shown = [c \in {"submit", "apply"} |-> shown[c]]
      /\ DraftShown(subm, draft, shown["submit"])
      /\ FormShown(appl, form, shown["apply"])
      /\ h.conv = "submit" => DraftShown(h.ret, draft, h.report)
      /\ h.conv = "apply" => FormShown(h.ret, form, h.report)
  BY DEF PollInv, SubmitKept, ApplyKept, Replied
<1>2. /\ subm' = (IF h.conv = "submit" THEN h.ret ELSE subm)
      /\ appl' = (IF h.conv = "apply" THEN h.ret ELSE appl)
      /\ shown' = Summarised(h) /\ Later(h)
      /\ running' = [running EXCEPT ![s] = Idle]
  BY DEF Replied
<1>3. /\ shown' = [c \in {"submit", "apply"} |-> shown'[c]]
      /\ shown'["submit"] = IF h.conv = "submit" THEN h.report ELSE shown["submit"]
      /\ shown'["apply"] = IF h.conv = "apply" THEN h.report ELSE shown["apply"]
  BY <1>1, <1>2 DEF Summarised
<1>4. DraftShown(subm', draft, shown'["submit"]) /\ FormShown(appl', form, shown'["apply"])
  BY <1>1, <1>2, <1>3
<1>5. /\ IsDraft(draft') /\ DraftShown(subm', draft', shown'["submit"])
      /\ form' \in {form, NoForm}
  BY <1>1, <1>2, <1>4, LaterShown
<1>6. IsForm(form') /\ FormShown(appl', form', shown'["apply"])
  BY <1>1, <1>4, <1>5, NoFormShown
<1>7. /\ IsHandler(Idle) /\ SubmitKept(Idle, subm', draft', shown'["submit"])
      /\ ApplyKept(Idle, appl', form', shown'["apply"])
  BY Kept DEF SubmitKept, ApplyKept
<1>. QED
  BY <1>2, <1>3, <1>5, <1>6, <1>7, PollMoves

(* A handler goes on, or ends, without touching the conversations; the form  *)
(* may be taken away when it ends.                                          *)
LEMMA QuietShown ==
  ASSUME PollInv, NEW s \in Slots, Alone(s), NEW h, IsHandler(h),
         running' = [running EXCEPT ![s] = h],
         UNCHANGED <<subm, appl, draft, shown>>,
         form' = form \/ (form' = NoForm /\ h = Idle),
         SubmitKept(h, subm, draft, shown["submit"]), ApplyKept(h, appl, form, shown["apply"])
  PROVE  PollInv'
<1>1. IsForm(form') /\ FormShown(appl', form', shown'["apply"])
  BY NoFormShown DEF PollInv
<1>2. ApplyKept(h, appl', form', shown'["apply"])
  BY Kept DEF ApplyKept
<1>. QED
  BY <1>1, <1>2, PollMoves DEF PollInv

LEMMA HandlerShown ==
  ASSUME PollInv, NEW s \in Slots,
         \/ Answered(s) \/ LanguageChosen(s) \/ Synced(s) \/ Replied(s) \/ TelegramFails(s)
         \/ PostArrives(s) \/ TriageDone(s) \/ TriageTooSlow(s)
         \/ PostAnswered(s) \/ PostFails(s)
  PROVE  PollInv'
<1>. DEFINE h == running[s]
<1>0. h.pc # "idle"
  BY DEF Answered, LanguageChosen, Synced, Replied, TelegramFails, PostArrives, TriageDone,
     TriageTooSlow, PostAnswered, PostFails
<1>1. /\ Alone(s) /\ IsHandler(h)
      /\ SubmitKept(h, subm, draft, shown["submit"]) /\ ApplyKept(h, appl, form, shown["apply"])
  BY <1>0, Kept DEF Alone, PollInv, HandlersOK
<1>2. CASE Answered(s) \/ Synced(s)
  <2>1. h.pc \in {"answering", "syncing"} /\ \E known : Run(s, h, known)
    BY <1>2 DEF Answered, Synced
  <2>2. Ready(h)
    BY <1>1, <2>1 DEF Ready, SubmitKept, ApplyKept
  <2>. QED
    BY <1>1, <2>1, <2>2, RunShown
<1>3. CASE LanguageChosen(s)
  <2>. DEFINE pc == IF registered THEN "replying" ELSE "syncing"
              g == At(h, pc)
  <2>1. running' = [running EXCEPT ![s] = g] /\ h.conv = "info"
        /\ UNCHANGED <<subm, appl, draft, form, shown>>
    BY <1>3 DEF LanguageChosen, At
  <2>2. IsHandler(g) /\ g.conv = h.conv
    BY <1>1, GoesOn
  <2>. HIDE DEF g
  <2>3. SubmitKept(g, subm, draft, shown["submit"]) /\ ApplyKept(g, appl, form, shown["apply"])
    BY <2>1, <2>2 DEF SubmitKept, ApplyKept
  <2>. QED
    BY <1>1, <2>1, <2>2, <2>3, QuietShown
<1>4. CASE Replied(s)
  BY <1>1, <1>4, RepliedShown
<1>5. CASE TelegramFails(s)
  <2>1. /\ running' = [running EXCEPT ![s] = Idle] /\ form' \in {form, NoForm}
        /\ UNCHANGED <<subm, appl, draft, shown>>
    BY <1>5 DEF TelegramFails
  <2>2. /\ IsHandler(Idle) /\ SubmitKept(Idle, subm, draft, shown["submit"])
        /\ ApplyKept(Idle, appl, form, shown["apply"])
    BY Kept DEF SubmitKept, ApplyKept
  <2>. QED
    BY <1>1, <2>1, <2>2, QuietShown
<1>6. CASE PostArrives(s) \/ TriageDone(s)
  <2>1. PICK a : /\ running' = [running EXCEPT ![s] = At(h, a)]
                 /\ a \in {"refused", "forbidden", "triaging", "stored", "activated"}
                 /\ h.conv = "apply" => a # "triaging" /\ (a = "stored" => h.whole)
                 /\ h.pc \in {"posting", "triaging"}
    <3>1. CASE PostArrives(s)
      <4>1. PICK a \in AnswersTo(h) : running' = [running EXCEPT ![s] = At(h, a)]
        BY <3>1 DEF PostArrives, At
      <4>2. h.pc = "posting"
        BY <3>1 DEF PostArrives
      <4>3. /\ a \in {"refused", "forbidden", "triaging", "stored", "activated"}
            /\ h.conv = "apply" => a # "triaging" /\ (a = "stored" => h.whole)
        BY <4>1 DEF AnswersTo, SubmitAnswers, ApplyAnswers, InviteAnswers
      <4>. QED
        BY <4>1, <4>2, <4>3
    <3>2. CASE TriageDone(s)
      <4>1. running' = [running EXCEPT ![s] = At(h, "stored")] /\ h.pc = "triaging"
        BY <3>2 DEF TriageDone, At
      <4>. QED
        BY <1>1, <4>1 DEF ApplyKept
    <3>. QED
      BY <1>6, <3>1, <3>2
  <2>2. UNCHANGED <<subm, appl, draft, form, shown>>
    BY <1>6 DEF PostArrives, TriageDone, convs
  <2>. DEFINE g == At(h, a)
  <2>3. /\ IsHandler(g) /\ g.pc = a /\ g.conv = h.conv /\ g.report = h.report
        /\ g.seen = h.seen
    BY <1>1, GoesOn
  <2>4. running' = [running EXCEPT ![s] = g]
    BY <2>1
  <2>. HIDE DEF g
  <2>5. SubmitKept(g, subm, draft, shown["submit"])
    BY <2>1, <2>3 DEF SubmitKept
  <2>6. ApplyKept(g, appl, form, shown["apply"])
    BY <1>1, <2>1, <2>3 DEF ApplyKept
  <2>. QED
    BY <1>1, <2>2, <2>3, <2>4, <2>5, <2>6, QuietShown
<1>7. CASE TriageTooSlow(s) \/ PostAnswered(s) \/ PostFails(s)
  <2>. DEFINE c == h.conv
              e == [Effect(draft, END) EXCEPT
                      !.later = CASE c = "submit" -> "clear" [] c = "apply" -> "drop form"
                                  [] OTHER -> "nothing"]
  <2>1. running' = [running EXCEPT ![s] = Replying(h.conv, e, NoReport)]
        /\ UNCHANGED <<subm, appl, draft, form, shown>>
    BY <1>7 DEF TriageTooSlow, PostAnswered, PostFails, Told, convs
  <2>2. e.ret = END
    BY DEF Effect
  <2>. DEFINE g == Replying(h.conv, e, NoReport)
  <2>. HIDE DEF e
  <2>3. IsHandler(g) /\ g.pc = "replying" /\ g.conv = h.conv /\ g.ret = END
    BY <2>2, Kept
  <2>. HIDE DEF g
  <2>4. SubmitKept(g, subm, draft, shown["submit"])
    BY <2>3 DEF SubmitKept, DraftShown, END
  <2>5. FormShown(END, form, g.report)
    BY DEF PollInv, FormShown, END, BeforeMarket, AfterMarket
  <2>6. ApplyKept(g, appl, form, shown["apply"])
    BY <2>3, <2>5 DEF ApplyKept
  <2>7. running' = [running EXCEPT ![s] = g]
    BY <2>1 DEF g
  <2>. QED
    BY <1>1, <2>1, <2>3, <2>4, <2>6, <2>7, QuietShown
<1>. QED
  BY <1>2, <1>3, <1>4, <1>5, <1>6, <1>7

(* A restart leaves nothing to be confirmed.                                *)
LEMMA RestartShown == Restart => PollInv'
<1>. SUFFICES ASSUME Restart PROVE PollInv'
  OBVIOUS
<1>1. /\ subm' = END /\ appl' = END /\ draft' = EmptyDraft /\ form' = NoForm
      /\ running' = [s \in Slots |-> Idle]
      /\ shown' = [c \in {"submit", "apply"} |-> NoReport]
  BY DEF Restart
<1>2. IsDraft(draft') /\ DraftShown(subm', draft', shown'["submit"])
  BY <1>1 DEF IsDraft, EmptyDraft, DraftShown, END
<1>3. IsForm(form') /\ FormShown(appl', form', shown'["apply"])
  BY <1>1, NoFormShown
<1>4. \A s \in Slots : /\ running'[s] = Idle
                       /\ SubmitKept(running'[s], subm', draft', shown'["submit"])
                       /\ ApplyKept(running'[s], appl', form', shown'["apply"])
  BY <1>1, Kept DEF SubmitKept, ApplyKept
<1>5. HandlersOK'
  BY <1>1, Kept DEF HandlersOK
<1>. QED
  BY <1>1, <1>2, <1>3, <1>4, <1>5 DEF PollInv

LEMMA ShownNext == ShownInv /\ [Next]_vars => ShownInv'
<1>. SUFFICES ASSUME ShownInv, [Next]_vars, mode' = "polling" PROVE PollInv'
  BY DEF ShownInv
<1>1. mode' = mode
  BY DEF Next, vars, Receive, ReceiveUnknown, ReceiveAndRun, Answered, LanguageChosen, Synced,
     Run, Replied, TelegramFails, PostArrives, TriageDone, TriageTooSlow, PostAnswered,
     PostFails, Approve, Reject, Ban, AtAPI, Restart
<1>2. PollInv /\ mode = "polling"
  BY <1>1 DEF ShownInv
<1>3. CASE UNCHANGED <<subm, appl, draft, form, shown, running>>
  BY <1>2, <1>3 DEF PollInv, HandlersOK
<1>4. CASE Approve \/ Reject \/ Ban \/ UNCHANGED vars
  BY <1>3, <1>4 DEF Approve, Reject, Ban, AtAPI, convs, vars
<1>. QED
  BY <1>2, <1>4, ReceiveShown, HandlerShown, RestartShown DEF Next

(* The inductive invariant holds in every reachable state.                  *)
THEOREM ShownInvariant == Spec => []ShownInv
<1>. QED
  BY ShownInit, ShownNext, PTL DEF Spec

(* In polling mode the report the bot sends reads as its last summary       *)
(* showed it, for any catalogue and whatever printing makes of a price      *)
(* (submit.py confirm_callback, _ask_confirm): whatever answers were lost   *)
(* on the way, no handler changes a draft that waits to be confirmed except *)
(* by taking it away.                                                       *)
THEOREM SentWasShown == Spec => []SentIsLastShown
<1>1. ShownInv => SentIsLastShown
  <2>. SUFFICES ASSUME PollInv, NEW s \in Slots,
                       running[s].conv = "submit", running[s].pc = "posting"
                PROVE  Summary(running[s].report) = running[s].seen
    BY DEF ShownInv, SentIsLastShown
  <2>. QED
    BY DEF PollInv, SubmitKept
<1>. QED
  BY <1>1, ShownInvariant, PTL

(* In polling mode an application that is stored names the market its       *)
(* summary showed (apply.py apply_consent, apply_confirm): a label never    *)
(* outlives the choice of a listed market.                                  *)
THEOREM AppliedWasShown == Spec => []AppliedIsShown
<1>1. ShownInv => AppliedIsShown
  <2>. SUFFICES ASSUME PollInv, NEW s \in Slots,
                       running[s].conv = "apply", running[s].pc = "stored"
                PROVE  running[s].report.market = running[s].seen.market
    BY DEF ShownInv, AppliedIsShown
  <2>. QED
    BY DEF PollInv, ApplyKept
<1>. QED
  BY <1>1, ShownInvariant, PTL

-----------------------------------------------------------------------------
(* Types, in both modes.                                                    *)

Reported == [market: Listed \union Labels \union {Other, None},
             commodity: Commodities \union {None}, price: Prices \union Printouts \union {None}]

(* What the updates carry.                                                  *)
Carries(u) ==
  /\ IsText(u) => u.val \in Texts
  /\ u.kind = "voice" => u.val \in Transcripts
  /\ u.kind = "tap" /\ u.key \in {"market", "apply_market"} => u.val \in Listed \union {Other}
  /\ u.kind = "tap" /\ u.key = "commodity" => u.val \in Commodities
  /\ u.key \in {"confirm", "apply_confirm"} => u.kind \notin {"info", "agent"}

LEMMA Carried == \A u \in Updates : Carries(u)
<1>. SUFFICES ASSUME NEW u \in Updates PROVE Carries(u)
  OBVIOUS
<1>0. /\ \A kind, key, val : /\ Update(kind, key, val).kind = kind
                             /\ Update(kind, key, val).key = key
                             /\ Update(kind, key, val).val = val
  BY DEF Update
<1>1. CASE u \in SubmitTaps
  BY <1>0, <1>1 DEF SubmitTaps, VoiceTaps, IsText, Carries
<1>2. CASE u \in ApplyTaps
  BY <1>0, <1>2 DEF ApplyTaps, ProfileTaps, VoiceTaps, IsText, Carries
<1>3. ASSUME NEW kind \in {"start", "apply", "cancel", "info", "agent"},
             u = Update(kind, "command", None)
      PROVE  Carries(u)
  <2>1. u.kind = kind /\ u.key = "command"
    BY <1>0, <1>3
  <2>. QED
    BY <2>1 DEF Carries, IsText
<1>4. CASE u = Update("tap", "ui_lang", None)
  <2>1. u.kind = "tap" /\ u.key = "ui_lang"
    BY <1>0, <1>4
  <2>. QED
    BY <2>1 DEF Carries, IsText
<1>5. ASSUME NEW n \in Names, u = Update("start", "button", n) PROVE Carries(u)
  <2>1. u.kind = "start" /\ u.key = "button" /\ u.val = n
    BY <1>0, <1>5
  <2>. QED
    BY <2>1 DEF Carries, IsText, Texts, Labels
<1>6. ASSUME NEW t \in Texts, u = Update("text", None, t) PROVE Carries(u)
  <2>1. u.kind = "text" /\ u.val = t
    BY <1>0, <1>6
  <2>. QED
    BY <2>1 DEF Carries
<1>7. ASSUME NEW t \in Transcripts, u = Update("voice", None, t) PROVE Carries(u)
  <2>1. u.kind = "voice" /\ u.val = t
    BY <1>0, <1>7
  <2>. QED
    BY <2>1 DEF Carries, IsText
<1>. QED
  BY <1>1, <1>2, <1>3, <1>4, <1>5, <1>6, <1>7 DEF Updates

(* An effect on user_data that holds values of D, with a state of S.        *)
EffectIn(e, D, S) ==
  /\ e.draft \in D /\ e.ret \in S \union {END, "post", "raise"}
  /\ e.later \in {"nothing", "drop voice"}

LEMMA EffectFits ==
  ASSUME NEW D, NEW S, NEW d \in D, NEW r \in S \union {END, "post", "raise"}
  PROVE  EffectIn(Effect(d, r), D, S)
BY DEF EffectIn, Effect

(* What the handlers of submit leave is a draft, in a state of its own.     *)
LEMMA SubmitEffectTyped ==
  ASSUME NEW at \in SubmitStates \union {END}, NEW u, NEW d \in Draft, NEW b,
         Carries(u), SubmitTakes(at, u)
  PROVE  EffectIn(SubmitEffect(at, u, d, b), Draft, SubmitStates)
<1>. DEFINE e == SubmitEffect(at, u, d, b)
<1>. SUFFICES EffectIn(e, Draft, SubmitStates)
  OBVIOUS
<1>0. EmptyDraft \in Draft
  BY DEF EmptyDraft, Draft
<1>1. CASE u.kind = "start"
  <2>1. e = Effect(EmptyDraft, "CONSENT")
    BY <1>1 DEF SubmitEffect, Started
  <2>. HIDE DEF e
  <2>. QED
    BY <1>0, <2>1, EffectFits DEF SubmitStates
<1>2. CASE u.kind # "start" /\ (u.kind = "cancel" \/ u.key = "cancel")
  <2>1. e = Effect(EmptyDraft, END)
    BY <1>2 DEF SubmitEffect, Cancelled
  <2>. HIDE DEF e
  <2>. QED
    BY <1>0, <2>1, EffectFits
<1>3. CASE u.kind # "start" /\ u.kind # "cancel" /\ u.key # "cancel"
  <2>0. at \in SubmitStates
    BY <1>3 DEF SubmitTakes
  <2>1. CASE at = "CONSENT"
    <3>1. e = OnConsent(d, u.val, b)
      BY <1>3, <2>1 DEF SubmitEffect, InState
    <3>2. [d EXCEPT !.consent = TRUE] \in Draft
      BY DEF Draft
    <3>. HIDE DEF e
    <3>. QED
      BY <3>1, <3>2, EffectFits DEF OnConsent, SubmitStates
  <2>2. CASE at = "ENTRY_MODE"
    <3>1. e = OnEntryMode(d, u.val)
      BY <1>3, <2>2 DEF SubmitEffect, InState
    <3>. HIDE DEF e
    <3>. QED
      BY <3>1, EffectFits DEF OnEntryMode, Stay, SubmitStates
  <2>3. CASE at = "MARKET"
    <3>1. e = OnMarket(d, u.val)
      BY <1>3, <2>3 DEF SubmitEffect, InState
    <3>2. u.val \in Listed \union {Other}
      BY <1>3, <2>3 DEF SubmitTakes, KeyOf, Carries
    <3>3. [d EXCEPT !.market = u.val, !.label = None] \in Draft
      BY <3>2 DEF Draft
    <3>. HIDE DEF e
    <3>. QED
      BY <3>1, <3>3, EffectFits DEF OnMarket, SubmitStates
  <2>4. CASE at = "MARKET_OTHER"
    <3>1. \/ u.kind = "text" /\ e = OnOtherMarketText(d, u.val)
          \/ u.kind = "voice" /\ e = OnVoiceNote(d, u.val)
          \/ e = OnOtherMarketLang(d, u.val)
      BY <1>3, <2>4 DEF SubmitEffect, InState, SubmitTakes
    <3>. HIDE DEF e
    <3>2. CASE u.kind = "text" /\ e = OnOtherMarketText(d, u.val)
      <4>1. u.val # Junk => u.val \in Labels
        BY <3>2 DEF Carries, IsText, Texts
      <4>2. u.val # Junk => [d EXCEPT !.market = Other, !.label = u.val] \in Draft
        BY <4>1 DEF Draft
      <4>. QED
        BY <3>2, <4>2, EffectFits DEF OnOtherMarketText, Stay, SubmitStates
    <3>3. CASE u.kind = "voice" /\ e = OnVoiceNote(d, u.val)
      <4>1. u.val # None => u.val \in Labels
        BY <3>3 DEF Carries, Transcripts, Labels
      <4>2. u.val # None => [d EXCEPT !.pending = u.val] \in Draft
        BY <4>1 DEF Draft
      <4>. QED
        BY <3>3, <4>2, EffectFits DEF OnVoiceNote, Stay, SubmitStates
    <3>4. CASE e = OnOtherMarketLang(d, u.val)
      <4>1. [d EXCEPT !.voice = TRUE] \in Draft
        BY DEF Draft
      <4>2. EffectIn([Effect(d, "ENTRY_MODE") EXCEPT !.later = "drop voice"], Draft, SubmitStates)
        BY DEF EffectIn, Effect, SubmitStates
      <4>. QED
        BY <3>4, <4>1, <4>2, EffectFits DEF OnOtherMarketLang, SubmitStates
    <3>. QED
      BY <3>1, <3>2, <3>3, <3>4
  <2>5. CASE at = "MARKET_OTHER_CONFIRM"
    <3>1. e = OnVoiceConfirm(d, u.val)
      BY <1>3, <2>5 DEF SubmitEffect, InState
    <3>2. [d EXCEPT !.market = Other, !.label = d.pending, !.pending = None, !.voice = FALSE]
            \in Draft
      BY DEF Draft
    <3>. HIDE DEF e
    <3>. QED
      BY <3>1, <3>2, EffectFits DEF OnVoiceConfirm, Stay, SubmitStates
  <2>6. CASE at = "COMMODITY"
    <3>1. e = OnCommodity(d, u.val)
      BY <1>3, <2>6 DEF SubmitEffect, InState
    <3>2. u.val \in Commodities
      BY <1>3, <2>6 DEF SubmitTakes, KeyOf, Carries
    <3>3. [d EXCEPT !.commodity = u.val] \in Draft
      BY <3>2 DEF Draft
    <3>. HIDE DEF e
    <3>. QED
      BY <3>1, <3>3, EffectFits DEF OnCommodity, SubmitStates
  <2>7. CASE at = "PRICE"
    <3>1. e = OnPrice(d, u.val)
      BY <1>3, <2>7 DEF SubmitEffect, InState
    <3>2. u.val \in Prices => [d EXCEPT !.price = u.val] \in Draft
      BY DEF Draft
    <3>. HIDE DEF e
    <3>. QED
      BY <3>1, <3>2, EffectFits DEF OnPrice, Stay, KeyMissing, SubmitStates
  <2>8. CASE at = "CONFIRM"
    <3>1. e = OnConfirm(d, u.val)
      BY <1>3, <2>8 DEF SubmitEffect, InState
    <3>. HIDE DEF e
    <3>. QED
      BY <3>1, EffectFits DEF OnConfirm, KeyMissing, SubmitStates
  <2>. QED
    BY <2>0, <2>1, <2>2, <2>3, <2>4, <2>5, <2>6, <2>7, <2>8 DEF SubmitStates
<1>. QED
  BY <1>1, <1>2, <1>3

(* What the handlers of apply leave is a form, in a state of their own.     *)
LEMMA ApplyEffectTyped ==
  ASSUME NEW at \in ApplyStates \union {END}, NEW u, NEW f \in Form,
         Carries(u), ApplyTakes(at, u)
  PROVE  EffectIn(ApplyEffect(at, u, f), Form, ApplyStates)
<1>. DEFINE e == ApplyEffect(at, u, f)
<1>. SUFFICES EffectIn(e, Form, ApplyStates)
  OBVIOUS
<1>0. /\ NoForm \in Form /\ Held(f) \in Form
      /\ \A g \in Form : \A k \in {"name", "phone", "frequency"} :
           [g EXCEPT !.filled = @ \union {k}] \in Form
      /\ \A g \in Form : \A r \in ApplyStates \union {END, "post", "raise"} :
           EffectIn(Effect(g, r), Form, ApplyStates)
  BY EffectFits DEF NoForm, Form, Held
<1>1. CASE u.kind = "apply"
  <2>1. e = Effect(NewForm, "FULL_NAME") /\ NewForm \in Form
    BY <1>0, <1>1 DEF ApplyEffect, ApplyStarted, NewForm, Form
  <2>. HIDE DEF e
  <2>. QED
    BY <1>0, <2>1 DEF ApplyStates
<1>2. CASE u.kind # "apply" /\ (u.kind = "cancel" \/ u.key = "apply_cancel")
  <2>1. e = Effect(NoForm, END)
    BY <1>2 DEF ApplyEffect, ApplyCancelled
  <2>. HIDE DEF e
  <2>. QED
    BY <1>0, <2>1
<1>3. CASE u.kind # "apply" /\ u.kind # "cancel" /\ u.key # "apply_cancel"
  <2>0. at \in ApplyStates
    BY <1>3 DEF ApplyTakes
  <2>1. CASE at = "FULL_NAME"
    <3>1. e = OnFullName(f, u.val)
      BY <1>3, <2>1 DEF ApplyEffect, InApplyState
    <3>. HIDE DEF e
    <3>. QED
      BY <1>0, <3>1 DEF OnFullName, Stay, ApplyStates
  <2>2. CASE at = "PHONE"
    <3>1. e = OnPhone(f, u.val)
      BY <1>3, <2>2 DEF ApplyEffect, InApplyState
    <3>. HIDE DEF e
    <3>. QED
      BY <1>0, <3>1 DEF OnPhone, Stay, NeedForm, KeyMissing, ApplyStates
  <2>3. CASE at = "CITY"
    <3>1. e = OnCity(f, u.val)
      BY <1>3, <2>3 DEF ApplyEffect, InApplyState
    <3>. HIDE DEF e
    <3>. QED
      BY <1>0, <3>1 DEF OnCity, NeedForm, KeyMissing, ApplyStates
  <2>4. CASE at = "CITY_OTHER"
    <3>1. e = OnCityText(f, u.val)
      BY <1>3, <2>4 DEF ApplyEffect, InApplyState
    <3>. HIDE DEF e
    <3>. QED
      BY <1>0, <3>1 DEF OnCityText, Stay, NeedForm, KeyMissing, ApplyStates
  <2>5. CASE at = "SUBCITY"
    <3>1. e = OnSubcity(f, u.val)
      BY <1>3, <2>5 DEF ApplyEffect, InApplyState
    <3>. HIDE DEF e
    <3>. QED
      BY <1>0, <3>1 DEF OnSubcity, NeedForm, KeyMissing, ApplyStates
  <2>6. CASE at = "SUBCITY_OTHER"
    <3>1. e = OnSubcityText(f, u.val)
      BY <1>3, <2>6 DEF ApplyEffect, InApplyState
    <3>. HIDE DEF e
    <3>. QED
      BY <1>0, <3>1 DEF OnSubcityText, NeedForm, KeyMissing, ApplyStates
  <2>7. CASE at = "FREQUENCY"
    <3>1. e = OnFrequency(f, u.val)
      BY <1>3, <2>7 DEF ApplyEffect, InApplyState
    <3>. HIDE DEF e
    <3>. QED
      BY <1>0, <3>1 DEF OnFrequency, NeedForm, KeyMissing, ApplyStates
  <2>8. CASE at = "LANGUAGES"
    <3>1. e = OnLanguages(f, u.val)
      BY <1>3, <2>8 DEF ApplyEffect, InApplyState
    <3>. HIDE DEF e
    <3>. QED
      BY <1>0, <3>1 DEF OnLanguages, Stay, ApplyStates
  <2>9. CASE at = "CONSENT"
    <3>1. e = OnApplyConsent(f, u.val)
      BY <1>3, <2>9 DEF ApplyEffect, InApplyState
    <3>. HIDE DEF e
    <3>. QED
      BY <1>0, <3>1 DEF OnApplyConsent, NeedForm, KeyMissing, ApplyStates
  <2>10. CASE at = "CONFIRM"
    <3>1. e = OnApplyConfirm(f, u.val)
      BY <1>3, <2>10 DEF ApplyEffect, InApplyState
    <3>. HIDE DEF e
    <3>. QED
      BY <1>0, <3>1 DEF OnApplyConfirm, ApplyStates
  <2>11. CASE at = "MARKET"
    <3>1. e = OnApplyMarket(f, u.val)
      BY <1>3, <2>11 DEF ApplyEffect, InApplyState
    <3>2. u.val \in Listed \union {Other}
      BY <1>3, <2>11 DEF ApplyTakes, ApplyKeyOf, Carries, IsText
    <3>3. [f EXCEPT !.market = u.val] \in Form
      BY <3>2 DEF Form
    <3>. HIDE DEF e
    <3>. QED
      BY <1>0, <3>1, <3>3 DEF OnApplyMarket, NeedForm, KeyMissing, ApplyStates
  <2>12. CASE at = "MARKET_OTHER"
    <3>1. \/ IsText(u) /\ e = OnApplyOtherText(f, u.val)
          \/ u.kind = "voice" /\ e = OnApplyVoiceNote(f, u.val)
          \/ e = OnApplyOtherMode(f, u.val)
      BY <1>3, <2>12 DEF ApplyEffect, InApplyState, ApplyTakes
    <3>. HIDE DEF e
    <3>2. CASE IsText(u) /\ e = OnApplyOtherText(f, u.val)
      <4>1. u.val # Junk => u.val \in Labels
        BY <3>2 DEF Carries, Texts
      <4>2. u.val # Junk => [f EXCEPT !.market = Other, !.label = u.val] \in Form
        BY <4>1 DEF Form
      <4>. QED
        BY <1>0, <3>2, <4>2 DEF OnApplyOtherText, Stay, NeedForm, KeyMissing, ApplyStates
    <3>3. CASE u.kind = "voice" /\ e = OnApplyVoiceNote(f, u.val)
      <4>1. u.val # None => u.val \in Labels
        BY <3>3 DEF Carries, Transcripts, Labels
      <4>2. u.val # None => [Held(f) EXCEPT !.pending = u.val] \in Form
        BY <1>0, <4>1 DEF Form
      <4>. QED
        BY <1>0, <3>3, <4>2 DEF OnApplyVoiceNote, Stay, ApplyStates
    <3>4. CASE e = OnApplyOtherMode(f, u.val)
      BY <1>0, <3>4 DEF OnApplyOtherMode, ApplyStates
    <3>. QED
      BY <3>1, <3>2, <3>3, <3>4
  <2>13. CASE at = "MARKET_OTHER_CONFIRM"
    <3>1. e = OnApplyVoiceConfirm(f, u.val)
      BY <1>3, <2>13 DEF ApplyEffect, InApplyState
    <3>2. [f EXCEPT !.market = Other, !.label = f.pending, !.pending = None] \in Form
      BY DEF Form
    <3>. HIDE DEF e
    <3>. QED
      BY <1>0, <3>1, <3>2 DEF OnApplyVoiceConfirm, ApplyStates
  <2>. QED
    BY <2>0, <2>1, <2>2, <2>3, <2>4, <2>5, <2>6, <2>7, <2>8, <2>9, <2>10, <2>11, <2>12, <2>13
    DEF ApplyStates
<1>. QED
  BY <1>1, <1>2, <1>3

Stages == {"idle", "answering", "syncing", "replying", "posting", "triaging",
           "stored", "refused", "forbidden", "activated"}
Convs == {"none", "submit", "apply", "info", "invite"}

(* A handler that waits has an update its conversation takes in the state    *)
(* that was found.                                                          *)
Due(h) ==
  /\ h.upd \in Updates
  /\ h.conv = "submit" => h.at \in SubmitStates \union {END} /\ SubmitTakes(h.at, h.upd)
  /\ h.conv = "apply" => h.at \in ApplyStates \union {END} /\ ApplyTakes(h.at, h.upd)

Typed(h) ==
  /\ h \in Handlers /\ IsHandler(h)
  /\ h.conv = "submit" => h.ret \in SubmitStates \union {END}
  /\ h.conv = "apply" => h.ret \in ApplyStates \union {END}
  /\ h.pc \in {"answering", "syncing"} => Due(h)

Chat ==
  /\ mode \in Modes /\ let_in \in Doors
  /\ subm \in SubmitStates \union {END} /\ appl \in ApplyStates \union {END}
  /\ draft \in Draft /\ form \in Form
  /\ lang \in BOOLEAN /\ registered \in BOOLEAN /\ banned \in BOOLEAN
  /\ shown \in [{"submit", "apply"} -> Reported]

(* The inductive invariant that gives the types.                            *)
TypeInv ==
  /\ Chat
  /\ running = [s \in Slots |-> running[s]]
  /\ \A s \in Slots : Typed(running[s])

(* A handler is put together from its fields, and has them.                 *)
LEMMA Made ==
  ASSUME NEW h, IsHandler(h), h.pc \in Stages, h.conv \in Convs,
         h.at \in SubmitStates \union ApplyStates \union {END},
         h.upd \in Updates \union {Update("none", None, None)},
         h.ret \in SubmitStates \union ApplyStates \union {END},
         h.later \in {"nothing", "clear", "drop voice", "drop form"},
         h.report \in Reported, h.whole \in BOOLEAN, h.seen \in Reported
  PROVE  h \in Handlers
<1>. DEFINE pc == h.pc
            conv == h.conv
            at == h.at
            upd == h.upd
            ret == h.ret
            later == h.later
            report == h.report
            whole == h.whole
            seen == h.seen
            all == Updates \union {Update("none", None, None)}
<1>1. h = [pc |-> pc, conv |-> conv, at |-> at, upd |-> upd, ret |-> ret, later |-> later,
           report |-> report, whole |-> whole, seen |-> seen]
  BY DEF IsHandler
<1>2. /\ pc \in Stages /\ conv \in Convs /\ at \in SubmitStates \union ApplyStates \union {END}
      /\ upd \in all /\ ret \in SubmitStates \union ApplyStates \union {END}
      /\ later \in {"nothing", "clear", "drop voice", "drop form"}
      /\ report \in Reported /\ whole \in BOOLEAN /\ seen \in Reported
  OBVIOUS
<1>3. Handlers = [pc: Stages, conv: Convs, at: SubmitStates \union ApplyStates \union {END},
                  upd: all, ret: SubmitStates \union ApplyStates \union {END},
                  later: {"nothing", "clear", "drop voice", "drop form"},
                  report: Reported, whole: BOOLEAN, seen: Reported]
  BY DEF Handlers, Stages, Convs, Reported
<1>. HIDE DEF pc, conv, at, upd, ret, later, report, whole, seen, all
<1>. QED
  BY <1>1, <1>2, <1>3

LEMMA Fields ==
  ASSUME NEW h \in Handlers
  PROVE  /\ h.pc \in Stages /\ h.conv \in Convs
         /\ h.at \in SubmitStates \union ApplyStates \union {END}
         /\ h.upd \in Updates \union {Update("none", None, None)}
         /\ h.ret \in SubmitStates \union ApplyStates \union {END}
         /\ h.later \in {"nothing", "clear", "drop voice", "drop form"}
         /\ h.report \in Reported /\ h.whole \in BOOLEAN /\ h.seen \in Reported
<1>. DEFINE all == Updates \union {Update("none", None, None)}
<1>1. Handlers = [pc: Stages, conv: Convs, at: SubmitStates \union ApplyStates \union {END},
                  upd: all, ret: SubmitStates \union ApplyStates \union {END},
                  later: {"nothing", "clear", "drop voice", "drop form"},
                  report: Reported, whole: BOOLEAN, seen: Reported]
  BY DEF Handlers, Stages, Convs, Reported
<1>. HIDE DEF all
<1>2. /\ h.pc \in Stages /\ h.conv \in Convs
      /\ h.at \in SubmitStates \union ApplyStates \union {END}
      /\ h.upd \in all
      /\ h.ret \in SubmitStates \union ApplyStates \union {END}
      /\ h.later \in {"nothing", "clear", "drop voice", "drop form"}
      /\ h.report \in Reported /\ h.whole \in BOOLEAN /\ h.seen \in Reported
  BY <1>1
<1>. QED
  BY <1>2 DEF all

LEMMA Reports ==
  /\ NoReport \in Reported
  /\ \A d \in Draft : Report(d) \in Reported /\ Summary(Report(d)) \in Reported
  /\ \A m \in Listed \union Labels \union {Other, None} : MarketOnly(m) \in Reported
  /\ \A f \in Form : /\ MarketOnly(SummaryMarket(f)) \in Reported
                     /\ MarketOnly(AppliedMarket(f)) \in Reported
<1>1. NoReport \in Reported
  BY DEF NoReport, Reported
<1>2. \A d \in Draft : Report(d) \in Reported /\ Summary(Report(d)) \in Reported
  BY DEF Report, Summary, Printouts, Draft, Reported
<1>3. \A m \in Listed \union Labels \union {Other, None} : MarketOnly(m) \in Reported
  BY DEF MarketOnly, NoReport, Reported
<1>4. \A f \in Form : /\ SummaryMarket(f) \in Listed \union Labels \union {Other, None}
                      /\ AppliedMarket(f) \in Listed \union Labels \union {Other, None}
  BY DEF SummaryMarket, AppliedMarket, Form
<1>. QED
  BY <1>1, <1>2, <1>3, <1>4

(* What is left blank in a handler that has run.                            *)
LEMMA Blank ==
  /\ Idle.at = END /\ Idle.upd = Update("none", None, None) /\ Idle.ret = END
  /\ Idle.later = "nothing" /\ Idle.report = NoReport /\ Idle.whole = FALSE
  /\ Idle.seen = NoReport
  /\ \A conv, e, report :
       LET h == Replying(conv, e, report)
       IN h.upd = Update("none", None, None) /\ h.whole = FALSE
  /\ \A g, report, whole :
       LET h == Posting(g, report, whole)
       IN h.at = END /\ h.upd = Update("none", None, None)
<1>. DEFINE idle == Idle
            none == Update("none", None, None)
<1>1. idle = [pc |-> "idle", conv |-> "none", at |-> END, upd |-> none,
              ret |-> END, later |-> "nothing", report |-> NoReport, whole |-> FALSE,
              seen |-> NoReport]
  BY DEF Idle
<1>2. \A conv, e, report : Replying(conv, e, report) =
        [idle EXCEPT !.pc = "replying", !.conv = conv, !.ret = e.ret, !.later = e.later,
                     !.report = IF e.ret = "CONFIRM" THEN report ELSE NoReport]
  BY DEF Replying
<1>3. \A g, report, whole : Posting(g, report, whole) =
        [idle EXCEPT !.pc = "posting", !.conv = g.conv, !.report = report,
                     !.whole = whole, !.seen = g.seen]
  BY DEF Posting
<1>. HIDE DEF idle, none
<1>4. /\ idle.at = END /\ idle.upd = none /\ idle.ret = END /\ idle.later = "nothing"
      /\ idle.report = NoReport /\ idle.whole = FALSE /\ idle.seen = NoReport
  BY <1>1
<1>5. \A conv, e, report : /\ Replying(conv, e, report).upd = none
                           /\ Replying(conv, e, report).whole = FALSE
  BY <1>1, <1>2
<1>6. \A g, report, whole : /\ Posting(g, report, whole).at = END
                            /\ Posting(g, report, whole).upd = none
  BY <1>1, <1>3
<1>. QED
  BY <1>4, <1>5, <1>6 DEF idle, none

LEMMA IdleTyped == Typed(Idle)
BY Kept, Blank, Made, Reports DEF Typed, Stages, Convs

LEMMA Sent ==
  ASSUME NEW conv, NEW e, NEW report
  PROVE  /\ IsHandler(Replying(conv, e, report)) /\ Replying(conv, e, report).pc = "replying"
         /\ Replying(conv, e, report).conv = conv /\ Replying(conv, e, report).ret = e.ret
         /\ Replying(conv, e, report).later = e.later /\ Replying(conv, e, report).at = END
         /\ Replying(conv, e, report).seen = NoReport
         /\ Replying(conv, e, report).report \in {report, NoReport}
<1>. DEFINE h == Replying(conv, e, report)
<1>1. /\ IsHandler(h) /\ h.pc = "replying" /\ h.conv = conv /\ h.ret = e.ret
      /\ h.later = e.later /\ h.at = END /\ h.seen = NoReport
  BY Kept
<1>2. h.report \in {report, NoReport}
  BY Kept
<1>. QED
  BY <1>1, <1>2

(* An answer that leaves a conversation in a state of its own.              *)
Answers(conv, e) ==
  /\ conv \in Convs /\ e.ret \in SubmitStates \union ApplyStates \union {END}
  /\ conv = "submit" => e.ret \in SubmitStates \union {END}
  /\ conv = "apply" => e.ret \in ApplyStates \union {END}
  /\ e.later \in {"nothing", "clear", "drop voice", "drop form"}

LEMMA ReplyTyped ==
  ASSUME NEW conv, NEW e, NEW report \in Reported, Answers(conv, e)
  PROVE  Typed(Replying(conv, e, report))
<1>. DEFINE h == Replying(conv, e, report)
<1>1. /\ IsHandler(h) /\ h.pc = "replying" /\ h.conv = conv /\ h.ret = e.ret
      /\ h.later = e.later /\ h.at = END /\ h.seen = NoReport
      /\ h.report \in {report, NoReport}
  BY Sent
<1>2. h.upd = Update("none", None, None) /\ h.whole = FALSE
  BY Blank
<1>. HIDE DEF h
<1>3. h.report \in Reported /\ h.seen \in Reported
  BY <1>1, Reports
<1>4. h \in Handlers
  BY <1>1, <1>2, <1>3, Made DEF Stages, Answers
<1>5. Typed(h)
  BY <1>1, <1>4 DEF Typed, Answers
<1>. QED
  BY <1>5 DEF h

LEMMA PostTyped ==
  ASSUME NEW g, g.conv \in Convs, g.seen \in Reported, NEW report \in Reported,
         NEW whole \in BOOLEAN
  PROVE  Typed(Posting(g, report, whole))
<1>. DEFINE h == Posting(g, report, whole)
<1>1. /\ IsHandler(h) /\ h.pc = "posting" /\ h.conv = g.conv /\ h.report = report
      /\ h.seen = g.seen
  BY Posted
<1>2. h.whole = whole /\ h.ret = END /\ h.later = "nothing"
  BY Kept
<1>3. h.at = END /\ h.upd = Update("none", None, None)
  BY Blank
<1>. HIDE DEF h
<1>4. h.whole \in BOOLEAN
  BY <1>2, Zenon
<1>5. h \in Handlers
  BY <1>1, <1>2, <1>3, <1>4, Made DEF Stages
<1>6. Typed(h)
  BY <1>1, <1>2, <1>5 DEF Typed
<1>. QED
  BY <1>6 DEF h

LEMMA MoveTyped ==
  ASSUME NEW h, Typed(h), NEW pc \in Stages, pc \in {"answering", "syncing"} => Due(h)
  PROVE  Typed(At(h, pc))
<1>. DEFINE g == At(h, pc)
<1>1. /\ IsHandler(g) /\ g.pc = pc /\ g.conv = h.conv /\ g.at = h.at /\ g.upd = h.upd
      /\ g.ret = h.ret /\ g.later = h.later /\ g.report = h.report
      /\ g.whole = h.whole /\ g.seen = h.seen
  BY GoesOn DEF Typed
<1>. HIDE DEF g
<1>2. h \in Handlers
  BY DEF Typed
<1>3. g \in Handlers
  BY <1>1, <1>2, Fields, Made
<1>4. Typed(g)
  BY <1>1, <1>3 DEF Typed, Due
<1>. QED
  BY <1>4 DEF g

LEMMA GivenTyped ==
  ASSUME Chat, NEW u \in Updates, ConvOf(u) # "none"
  PROVE  Typed(Handler(u)) /\ Due(Handler(u))
<1>. DEFINE h == Handler(u)
<1>1. /\ h.conv = ConvOf(u) /\ h.upd = u
      /\ h.at = (IF ConvOf(u) = "apply" THEN appl ELSE subm)
      /\ h.seen = (IF u.key \in {"confirm", "apply_confirm"}
                   THEN shown[ConvOf(u)] ELSE NoReport)
      /\ h.report = NoReport /\ h.ret = END
      /\ h.later = "nothing" /\ h.whole = FALSE /\ IsHandler(h)
  BY Given
<1>2. h.pc = "idle"
  BY Kept, Blank DEF Handler, Idle
<1>. HIDE DEF h
<1>3. /\ ConvOf(u) \in Convs
      /\ ConvOf(u) = "submit" => SubmitTakes(subm, u)
      /\ ConvOf(u) = "apply" => ApplyTakes(appl, u)
      /\ u.key \in {"confirm", "apply_confirm"} => ConvOf(u) \in {"submit", "apply"}
  BY Carried DEF ConvOf, Convs, Carries
<1>4. h.seen \in Reported /\ h.report \in Reported
  BY <1>1, <1>3, Reports DEF Chat
<1>5. h.at \in SubmitStates \union ApplyStates \union {END}
  BY <1>1 DEF Chat
<1>6. Due(h)
  BY <1>1, <1>3 DEF Due, Chat
<1>7. h \in Handlers
  BY <1>1, <1>2, <1>3, <1>4, <1>5, Made DEF Stages
<1>8. Typed(h)
  BY <1>1, <1>2, <1>7 DEF Typed
<1>. QED
  BY <1>6, <1>8 DEF h

LEMMA TypeInit == Init => TypeInv
<1>. SUFFICES ASSUME Init PROVE TypeInv
  OBVIOUS
<1>1. EmptyDraft \in Draft /\ NoForm \in Form
  BY DEF EmptyDraft, Draft, NoForm, Form
<1>2. [c \in {"submit", "apply"} |-> NoReport] \in [{"submit", "apply"} -> Reported]
  BY Reports
<1>3. Chat
  BY <1>1, <1>2, SettingsAssumption DEF Init, Chat
<1>. QED
  BY <1>3, IdleTyped DEF Init, TypeInv

LEMMA StepTyped ==
  ASSUME TypeInv, NEW s \in Slots, NEW h, Typed(h), running' = [running EXCEPT ![s] = h], Chat'
  PROVE  TypeInv'
<1>1. running' = [t \in Slots |-> running'[t]] /\ running'[s] = h
      /\ \A t \in Slots \ {s} : running'[t] = running[t]
  BY DEF TypeInv
<1>2. \A t \in Slots : Typed(running[t])'
  BY <1>1 DEF TypeInv, Typed, Due
<1>. QED
  BY <1>1, <1>2 DEF TypeInv

(* What a handler leaves when it has run.                                   *)
LEMMA RunTyped ==
  ASSUME Chat, NEW s \in Slots, NEW h, h.conv \in Convs, h.seen \in Reported, Due(h),
         NEW known, Run(s, h, known)
  PROVE  /\ UNCHANGED <<mode, let_in, subm, appl, lang, banned, shown>>
         /\ draft' \in Draft /\ form' \in Form
         /\ \E next : Typed(next) /\ running' = [running EXCEPT ![s] = next]
<1>0. UNCHANGED <<mode, let_in, subm, appl, lang, banned, shown>>
  BY DEF Run, RunSubmit, RunApply, RunInfo, RunInvite
<1>1. CASE RunSubmit(s, h, known)
  <2>0. NoForm \in Form
    BY DEF NoForm, Form
  <2>1. form' \in Form
    BY <1>1, <2>0 DEF RunSubmit, Chat
  <2>2. PICK e : AfterSubmit(s, h, e) /\ EffectIn(e, Draft, SubmitStates)
    <3>1. CASE h.upd.kind = "start" /\ DeclineStart(known)
      <4>1. AfterSubmit(s, h, Effect(draft, END))
        BY <1>1, <3>1 DEF RunSubmit
      <4>2. EffectIn(Effect(draft, END), Draft, SubmitStates)
        BY EffectFits DEF Chat
      <4>. QED
        BY <4>1, <4>2
    <3>2. CASE ~(h.upd.kind = "start" /\ DeclineStart(known))
      <4>1. AfterSubmit(s, h, SubmitEffect(h.at, h.upd, draft, banned))
        BY <1>1, <3>2 DEF RunSubmit
      <4>2. /\ h.at \in SubmitStates \union {END} /\ SubmitTakes(h.at, h.upd)
            /\ Carries(h.upd) /\ draft \in Draft
        BY <1>1, Carried DEF RunSubmit, Due, Chat
      <4>3. EffectIn(SubmitEffect(h.at, h.upd, draft, banned), Draft, SubmitStates)
        BY <4>2, SubmitEffectTyped
      <4>. QED
        BY <4>1, <4>3
    <3>. QED
      BY <3>1, <3>2
  <2>3. e.draft \in Draft /\ draft' = e.draft
    BY <2>2 DEF AfterSubmit, EffectIn
  <2>. DEFINE next == CASE e.ret = "raise" -> Idle
                        [] e.ret = "post" /\ ~banned -> Posting(h, Report(draft), TRUE)
                        [] e.ret = "post" /\ banned ->
                             Replying("submit", ClearLater(draft), NoReport)
                        [] OTHER -> Replying("submit", e, Summary(Report(e.draft)))
  <2>4. running' = [running EXCEPT ![s] = next]
    BY <2>2 DEF AfterSubmit
  <2>5. Typed(next)
    <3>1. CASE e.ret = "raise"
      BY <3>1, IdleTyped
    <3>2. CASE e.ret = "post" /\ ~banned
      <4>1. Report(draft) \in Reported
        BY Reports DEF Chat
      <4>2. Typed(Posting(h, Report(draft), TRUE))
        BY <4>1, PostTyped
      <4>. QED
        BY <3>2, <4>2
    <3>3. CASE e.ret = "post" /\ banned
      <4>1. Answers("submit", ClearLater(draft))
        BY DEF Answers, ClearLater, Effect, Convs
      <4>2. Typed(Replying("submit", ClearLater(draft), NoReport))
        BY <4>1, Reports, ReplyTyped
      <4>. QED
        BY <3>3, <4>2
    <3>4. CASE e.ret \notin {"raise", "post"}
      <4>1. Answers("submit", e) /\ Summary(Report(e.draft)) \in Reported
        BY <2>2, <3>4, Reports DEF Answers, EffectIn, Convs
      <4>2. Typed(Replying("submit", e, Summary(Report(e.draft))))
        BY <4>1, ReplyTyped
      <4>. QED
        BY <3>4, <4>2
    <3>. QED
      BY <3>1, <3>2, <3>3, <3>4
  <2>. HIDE DEF next
  <2>. QED
    BY <1>0, <2>1, <2>3, <2>4, <2>5
<1>2. CASE RunApply(s, h, known)
  <2>1. draft' \in Draft
    BY <1>2 DEF RunApply, Chat
  <2>2. PICK e : AfterApply(s, h, e) /\ EffectIn(e, Form, ApplyStates)
    <3>1. CASE h.upd.kind = "apply" /\ known
      <4>1. AfterApply(s, h, Effect(form, END))
        BY <1>2, <3>1 DEF RunApply
      <4>2. EffectIn(Effect(form, END), Form, ApplyStates)
        BY EffectFits DEF Chat
      <4>. QED
        BY <4>1, <4>2
    <3>2. CASE ~(h.upd.kind = "apply" /\ known)
      <4>1. AfterApply(s, h, ApplyEffect(h.at, h.upd, form))
        BY <1>2, <3>2 DEF RunApply
      <4>2. /\ h.at \in ApplyStates \union {END} /\ ApplyTakes(h.at, h.upd)
            /\ Carries(h.upd) /\ form \in Form
        BY <1>2, Carried DEF RunApply, Due, Chat
      <4>3. EffectIn(ApplyEffect(h.at, h.upd, form), Form, ApplyStates)
        BY <4>2, ApplyEffectTyped
      <4>. QED
        BY <4>1, <4>3
    <3>. QED
      BY <3>1, <3>2
  <2>3. e.draft \in Form /\ form' = e.draft
    BY <2>2 DEF AfterApply, EffectIn
  <2>. DEFINE whole == FormComplete(form)
              next == CASE e.ret = "raise" -> Idle
                        [] e.ret = "post" -> Posting(h, MarketOnly(AppliedMarket(form)), whole)
                        [] OTHER -> Replying("apply", e, MarketOnly(SummaryMarket(e.draft)))
  <2>4. running' = [running EXCEPT ![s] = next]
    BY <2>2 DEF AfterApply
  <2>0. whole \in BOOLEAN
    BY DEF FormComplete
  <2>. HIDE DEF whole
  <2>5. Typed(next)
    <3>1. CASE e.ret = "raise"
      BY <3>1, IdleTyped
    <3>2. CASE e.ret = "post"
      <4>1. MarketOnly(AppliedMarket(form)) \in Reported
        BY Reports DEF Chat
      <4>2. Typed(Posting(h, MarketOnly(AppliedMarket(form)), whole))
        BY <2>0, <4>1, PostTyped
      <4>. QED
        BY <3>2, <4>2
    <3>3. CASE e.ret \notin {"raise", "post"}
      <4>1. Answers("apply", e) /\ MarketOnly(SummaryMarket(e.draft)) \in Reported
        BY <2>2, <3>3, Reports DEF Answers, EffectIn, Convs
      <4>2. Typed(Replying("apply", e, MarketOnly(SummaryMarket(e.draft))))
        BY <4>1, ReplyTyped
      <4>. QED
        BY <3>3, <4>2
    <3>. QED
      BY <3>1, <3>2, <3>3
  <2>. HIDE DEF next
  <2>. QED
    BY <1>0, <2>1, <2>3, <2>4, <2>5
<1>3. CASE RunInfo(s, h, known)
  <2>1. Answers("info", Effect(draft, END))
    BY DEF Answers, Effect, Convs
  <2>2. Typed(Replying("info", Effect(draft, END), NoReport))
    BY <2>1, Reports, ReplyTyped
  <2>. QED
    BY <1>0, <1>3, <2>2 DEF RunInfo, Chat
<1>4. CASE RunInvite(s, h)
  <2>1. Typed(Posting(h, NoReport, FALSE))
    BY Reports, PostTyped
  <2>. QED
    BY <1>0, <1>4, <2>1 DEF RunInvite, Chat
<1>. QED
  BY <1>1, <1>2, <1>3, <1>4 DEF Run

(* The same as a step.                                                      *)
LEMMA RanTyped ==
  ASSUME TypeInv, NEW s \in Slots, NEW h, Typed(h), Due(h), NEW known, Run(s, h, known),
         registered' \in BOOLEAN
  PROVE  TypeInv'
<1>0. h.conv \in Convs /\ h.seen \in Reported
  BY Fields DEF Typed
<1>1. /\ UNCHANGED <<mode, let_in, subm, appl, lang, banned, shown>>
      /\ draft' \in Draft /\ form' \in Form
      /\ \E next : Typed(next) /\ running' = [running EXCEPT ![s] = next]
  BY <1>0, RunTyped DEF TypeInv
<1>2. Chat'
  BY <1>1 DEF TypeInv, Chat
<1>. QED
  BY <1>1, <1>2, StepTyped

LEMMA ReceiveTyped ==
  ASSUME TypeInv, NEW s \in Slots, NEW u \in Updates,
         Receive(s, u) \/ ReceiveUnknown(s, u) \/ ReceiveAndRun(s, u)
  PROVE  TypeInv'
<1>1. Typed(Handler(u)) /\ Due(Handler(u))
  BY GivenTyped DEF TypeInv, Receive, ReceiveUnknown, ReceiveAndRun
<1>2. ASSUME NEW pc \in {"answering", "syncing"},
             UNCHANGED <<mode, let_in, registered, banned, convs>>,
             running' = [running EXCEPT ![s] = At(Handler(u), pc)]
      PROVE  TypeInv'
  <2>1. Typed(At(Handler(u), pc))
    BY <1>1, MoveTyped DEF Stages
  <2>2. Chat'
    BY <1>2 DEF TypeInv, Chat, convs
  <2>. QED
    BY <1>2, <2>1, <2>2, StepTyped
<1>3. CASE Receive(s, u)
  BY <1>2, <1>3 DEF Receive, At
<1>4. CASE ReceiveUnknown(s, u)
  BY <1>2, <1>4 DEF ReceiveUnknown, At
<1>5. CASE ReceiveAndRun(s, u)
  <2>1. Run(s, Handler(u), registered) /\ registered' = registered
    BY <1>5 DEF ReceiveAndRun
  <2>2. registered' \in BOOLEAN
    BY <2>1 DEF TypeInv, Chat
  <2>. QED
    BY <1>1, <2>1, <2>2, RanTyped
<1>. QED
  BY <1>3, <1>4, <1>5

LEMMA HandlerTypes ==
  ASSUME TypeInv, NEW s \in Slots,
         \/ Answered(s) \/ LanguageChosen(s) \/ Synced(s) \/ Replied(s) \/ TelegramFails(s)
         \/ PostArrives(s) \/ TriageDone(s) \/ TriageTooSlow(s)
         \/ PostAnswered(s) \/ PostFails(s)
  PROVE  TypeInv'
<1>. DEFINE h == running[s]
<1>0. /\ Chat /\ Typed(h) /\ NoForm \in Form /\ EmptyDraft \in Draft
      /\ h.conv \in Convs /\ h.report \in Reported
      /\ h.pc \in {"answering", "syncing"} => Due(h)
  BY Fields DEF TypeInv, Typed, NoForm, Form, EmptyDraft, Draft
<1>1. CASE Answered(s) \/ Synced(s)
  <2>1. PICK known : Run(s, h, known) /\ registered' \in BOOLEAN
    BY <1>0, <1>1 DEF Answered, Synced, Chat
  <2>2. Due(h)
    BY <1>0, <1>1 DEF Answered, Synced
  <2>. QED
    BY <1>0, <2>1, <2>2, RanTyped
<1>2. CASE LanguageChosen(s)
  <2>. DEFINE pc == IF registered THEN "replying" ELSE "syncing"
  <2>1. running' = [running EXCEPT ![s] = At(h, pc)] /\ pc \in Stages /\ Due(h)
    BY <1>0, <1>2 DEF LanguageChosen, At, Stages
  <2>2. Chat'
    BY <1>0, <1>2 DEF LanguageChosen, Chat
  <2>. HIDE DEF pc
  <2>3. Typed(At(h, pc))
    BY <1>0, <2>1, MoveTyped
  <2>. QED
    BY <2>1, <2>2, <2>3, StepTyped
<1>3. CASE Replied(s)
  <2>1. /\ draft' \in Draft /\ form' \in Form
    <3>1. [draft EXCEPT !.voice = FALSE] \in Draft
      BY <1>0 DEF Chat, Draft
    <3>2. draft' \in {EmptyDraft, draft, [draft EXCEPT !.voice = FALSE]} /\ form' \in {NoForm, form}
      BY <1>3 DEF Replied, Later
    <3>. QED
      BY <1>0, <3>1, <3>2 DEF Chat
  <2>2. shown' \in [{"submit", "apply"} -> Reported]
    BY <1>0, <1>3 DEF Replied, Summarised, Chat
  <2>3. subm' \in SubmitStates \union {END} /\ appl' \in ApplyStates \union {END}
    BY <1>0, <1>3 DEF Replied, Typed, Chat
  <2>4. /\ running' = [running EXCEPT ![s] = Idle]
        /\ UNCHANGED <<mode, let_in, lang, registered, banned>>
    BY <1>3 DEF Replied
  <2>5. Chat'
    BY <1>0, <2>1, <2>2, <2>3, <2>4 DEF Chat
  <2>. QED
    BY <2>4, <2>5, IdleTyped, StepTyped
<1>4. CASE TelegramFails(s)
  <2>1. running' = [running EXCEPT ![s] = Idle] /\ form' \in {form, NoForm}
        /\ UNCHANGED <<mode, let_in, subm, appl, draft, lang, registered, banned, shown>>
    BY <1>4 DEF TelegramFails
  <2>2. Chat'
    BY <1>0, <2>1 DEF Chat
  <2>. QED
    BY <2>1, <2>2, IdleTyped, StepTyped
<1>5. CASE PostArrives(s) \/ TriageDone(s)
  <2>1. PICK a \in {"refused", "forbidden", "triaging", "stored", "activated"} :
          running' = [running EXCEPT ![s] = At(h, a)]
    BY <1>5 DEF PostArrives, TriageDone, AnswersTo, SubmitAnswers, ApplyAnswers,
       InviteAnswers, At
  <2>2. Chat'
    BY <1>0, <1>5 DEF PostArrives, TriageDone, convs, Chat
  <2>3. Typed(At(h, a))
    BY <1>0, MoveTyped DEF Stages
  <2>. QED
    BY <2>1, <2>2, <2>3, StepTyped
<1>6. CASE TriageTooSlow(s) \/ PostAnswered(s) \/ PostFails(s)
  <2>. DEFINE c == h.conv
              e == [Effect(draft, END) EXCEPT
                      !.later = CASE c = "submit" -> "clear" [] c = "apply" -> "drop form"
                                  [] OTHER -> "nothing"]
  <2>1. running' = [running EXCEPT ![s] = Replying(h.conv, e, NoReport)]
        /\ UNCHANGED <<mode, let_in, convs>>
    BY <1>6 DEF TriageTooSlow, PostAnswered, PostFails, Told
  <2>2. registered' \in BOOLEAN /\ banned' \in BOOLEAN
    BY <1>0, <1>6 DEF TriageTooSlow, PostAnswered, PostFails, BanAfter, Chat
  <2>3. e.ret = END /\ e.later \in {"nothing", "clear", "drop voice", "drop form"}
    BY DEF Effect
  <2>. HIDE DEF e
  <2>4. Answers(h.conv, e)
    BY <1>0, <2>3 DEF Answers
  <2>5. Typed(Replying(h.conv, e, NoReport))
    BY <2>4, Reports, ReplyTyped
  <2>6. Chat'
    BY <1>0, <2>1, <2>2 DEF Chat, convs
  <2>. QED
    BY <2>1, <2>5, <2>6, StepTyped
<1>. QED
  BY <1>1, <1>2, <1>3, <1>4, <1>5, <1>6

LEMMA TypeNext == TypeInv /\ [Next]_vars => TypeInv'
<1>. SUFFICES ASSUME TypeInv, [Next]_vars PROVE TypeInv'
  OBVIOUS
<1>1. CASE UNCHANGED vars \/ Approve \/ Reject \/ Ban
  <2>1. UNCHANGED <<mode, let_in, registered, banned, running, convs>>
    BY <1>1 DEF vars, convs, Approve, Reject, Ban, AtAPI
  <2>. QED
    BY <2>1 DEF TypeInv, Chat, Typed, Due, convs
<1>2. CASE Restart
  <2>1. EmptyDraft \in Draft /\ NoForm \in Form
    BY DEF EmptyDraft, Draft, NoForm, Form
  <2>2. [c \in {"submit", "apply"} |-> NoReport] \in [{"submit", "apply"} -> Reported]
    BY Reports
  <2>3. Chat'
    BY <1>2, <2>1, <2>2, SettingsAssumption DEF Restart, TypeInv, Chat
  <2>4. running' = [s \in Slots |-> Idle]
    BY <1>2 DEF Restart
  <2>5. \A s \in Slots : Typed(running'[s])
    BY <2>4, IdleTyped
  <2>. QED
    BY <2>3, <2>4, <2>5 DEF TypeInv, Typed, Due
<1>. QED
  BY <1>1, <1>2, ReceiveTyped, HandlerTypes DEF Next

(* What the bot keeps is of its types, for any catalogue, any number of     *)
(* handlers at once and both modes: the draft and the form hold only codes  *)
(* of the catalogue, labels and prices that were accepted, and a            *)
(* conversation is only put in a state of its own (submit.py and apply.py,  *)
(* the states of their ConversationHandler).                                *)
THEOREM TypeCorrect == Spec => []TypeOK
<1>1. TypeInv => TypeOK
  BY DEF TypeInv, Chat, Typed, TypeOK
<1>2. Spec => []TypeInv
  BY TypeInit, TypeNext, PTL DEF Spec
<1>. QED
  BY <1>1, <1>2, PTL
=============================================================================
