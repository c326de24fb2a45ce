----------------------------- MODULE TelegramBot -----------------------------
(***************************************************************************)
(* The Telegram bot in the chat of one person: telegram_bot/bot.py runs    *)
(* the handlers of SubmitFlow and ApplyFlow, which share user_data, over   *)
(* the bot's memory of who is an agent (services/agents.py) and banned     *)
(* (services/reputation.py) and over the API (services/submission_client,  *)
(* score_api).  WAGA_TELEGRAM_DRY_RUN is false.                            *)
(*                                                                         *)
(* A handler runs from one await to the next.  It first waits for the      *)
(* answer to a tap or for the API; then, in one go, it changes user_data;  *)
(* then it sends its answers; and only when it returns does the library    *)
(* set the state of the conversation.  A call to Telegram that fails ends  *)
(* the handler there, and leaves the state as it was.  In polling mode an  *)
(* update is fetched when the handler of the one before has ended; in      *)
(* webhook mode each request runs its update at once.                      *)
(***************************************************************************)
EXTENDS ApplyFlow

CONSTANTS Slots,     \* bound: updates being handled at the same time
          Modes,     \* values of WAGA_TELEGRAM_MODE: "polling", "webhook"
          Doors      \* whether the settings let the person in: see let_in

ASSUME SettingsAssumption ==
  Modes \subseteq {"polling", "webhook"} /\ Doors \subseteq BOOLEAN

VARIABLES
  mode,        \* telegram_mode
  let_in,      \* the id is one of WAGA_TELEGRAM_AGENT_IDS, or
               \* WAGA_TELEGRAM_REQUIRE_AGENT is false: everyone is an agent
  subm,        \* state of the submit conversation
  appl,        \* state of the apply conversation
  draft,       \* user_data, what submit keeps in it
  form,        \* user_data["apply"]
  lang,        \* "ui_lang" in user_data
  registered,  \* AgentRegistry.is_agent
  banned,      \* ContributorReputation.banned, as the bot remembers it
  running,     \* the handlers between two awaits
  shown,       \* what the last summary of each conversation showed
  api,         \* the person at the API: is_agent, banned, application pending
  since        \* history: what the API has held since the bot started

convs == <<subm, appl, draft, form, lang, shown>>
vars == <<mode, let_in, subm, appl, draft, form, lang, registered, banned, running,
          shown, api, since>>

Idle == [pc |-> "idle", conv |-> "none", at |-> END, upd |-> Update("none", None, None),
         ret |-> END, later |-> "nothing", report |-> NoReport, whole |-> FALSE,
         seen |-> NoReport]

Init ==
  /\ mode \in Modes /\ let_in \in Doors
  /\ subm = END /\ appl = END /\ draft = EmptyDraft /\ form = NoForm
  /\ lang = FALSE /\ registered = let_in /\ banned = FALSE
  /\ running = [s \in Slots |-> Idle]
  /\ shown = [c \in {"submit", "apply"} |-> NoReport]
  /\ api \in [agent: BOOLEAN, banned: {FALSE}, applied: {FALSE}]
  /\ since = [approved |-> api.agent, banned |-> FALSE]

-----------------------------------------------------------------------------
(* Dispatch.  The apply conversation is registered first; help, score, the   *)
(* menu labels and the language buttons come after both conversations.       *)

Updates ==
  SubmitTaps \union ApplyTaps \union
  {Update("start", "command", None), Update("apply", "command", None),
   Update("cancel", "command", None), Update("info", "command", None),
   Update("agent", "command", None), Update("tap", "ui_lang", None)} \union
  {Update("start", "button", n) : n \in Names} \union
  {Update("text", None, t) : t \in Texts} \union
  {Update("voice", None, t) : t \in Transcripts}

ConvOf(u) == IF ApplyTakes(appl, u) THEN "apply"
             ELSE IF SubmitTakes(subm, u) THEN "submit"
             ELSE IF u.kind = "info" \/ u.key = "ui_lang" THEN "info"
             ELSE IF u.kind = "agent" THEN "invite"
             ELSE "none"

\* Which handlers ask the API about a person the bot does not know: start,
\* apply_start, help, score and the language buttons.
Syncs(h) ==
  /\ ~registered
  /\ \/ h.conv = "info"
     \/ h.conv = "apply" /\ h.upd.kind = "apply"
     \/ h.conv = "submit" /\ h.upd.kind = "start" /\ lang

-----------------------------------------------------------------------------
(* The synchronous part of a handler.  The registry is the one it sees.      *)

DeclineStart(known) == ~lang \/ ~known \/ banned

\* What is kept of a handler once it has run: the answers to send, with the
\* report or the market of a summary, and the state to return.
Replying(conv, e, report) ==
  [Idle EXCEPT !.pc = "replying", !.conv = conv, !.ret = e.ret, !.later = e.later,
               !.report = IF e.ret = "CONFIRM" THEN report ELSE NoReport]
Posting(h, report, whole) ==
  [Idle EXCEPT !.pc = "posting", !.conv = h.conv, !.report = report,
               !.whole = whole, !.seen = h.seen]

MarketOnly(m) == [NoReport EXCEPT !.market = m]

ClearLater(d) == [Effect(d, END) EXCEPT !.later = "clear"]

\* client.submit answers by itself for someone it remembers as banned.
AfterSubmit(s, h, e) ==
  /\ draft' = e.draft
  /\ running' = [running EXCEPT ![s] =
       CASE e.ret = "raise" -> Idle
         [] e.ret = "post" /\ ~banned -> Posting(h, Report(draft), TRUE)
         [] e.ret = "post" /\ banned -> Replying("submit", ClearLater(draft), NoReport)
         [] OTHER -> Replying("submit", e, Summary(Report(e.draft)))]

AfterApply(s, h, e) ==
  /\ form' = e.draft
  /\ running' = [running EXCEPT ![s] =
       CASE e.ret = "raise" -> Idle
         [] e.ret = "post" ->
              Posting(h, MarketOnly(AppliedMarket(form)), FormComplete(form))
         [] OTHER -> Replying("apply", e, MarketOnly(SummaryMarket(e.draft)))]

\* start clears user_data, and cancel too, so that both take the form away.
RunSubmit(s, h, known) ==
  /\ h.conv = "submit"
  /\ IF h.upd.kind = "start" /\ DeclineStart(known)
     THEN AfterSubmit(s, h, Effect(draft, END)) /\ UNCHANGED form
     ELSE /\ AfterSubmit(s, h, SubmitEffect(h.at, h.upd, draft, banned))
          /\ form' = IF h.upd.kind \in {"start", "cancel"} \/ h.upd.key = "cancel"
                     THEN NoForm ELSE form
  /\ UNCHANGED lang

\* An agent has nothing to apply for.
RunApply(s, h, known) ==
  /\ h.conv = "apply"
  /\ IF h.upd.kind = "apply" /\ known
     THEN AfterApply(s, h, Effect(form, END))
     ELSE AfterApply(s, h, ApplyEffect(h.at, h.upd, form))
  /\ UNCHANGED <<draft, lang>>

RunInfo(s, h, known) ==
  /\ h.conv = "info"
  /\ running' = [running EXCEPT ![s] = Replying("info", Effect(draft, END), NoReport)]
  /\ UNCHANGED <<draft, form, lang>>

\* /agent with a code; /agent alone only answers.
RunInvite(s, h) ==
  /\ h.conv = "invite"
  /\ running' = [running EXCEPT ![s] = Posting(h, NoReport, FALSE)]
  /\ UNCHANGED <<draft, form, lang>>

Run(s, h, known) ==
  /\ \/ RunSubmit(s, h, known) \/ RunApply(s, h, known)
     \/ RunInfo(s, h, known) \/ RunInvite(s, h)
  /\ UNCHANGED <<mode, let_in, subm, appl, banned, shown, api, since>>

-----------------------------------------------------------------------------
(* An update arrives.                                                        *)

Handler(u) ==
  LET c == ConvOf(u) IN
    [Idle EXCEPT !.conv = c, !.at = IF c = "apply" THEN appl ELSE subm, !.upd = u,
                 !.seen = IF u.key \in {"confirm", "apply_confirm"} THEN shown[c]
                          ELSE NoReport]

Free(s) ==
  /\ running[s] = Idle
  /\ mode = "polling" => \A t \in Slots : running[t] = Idle

\* A tap is answered, and a voice note transcribed, before anything is done.
Receive(s, u) ==
  /\ Free(s) /\ ConvOf(u) # "none"
  /\ u.kind \in {"tap", "voice"}
  /\ running' = [running EXCEPT ![s] = [Handler(u) EXCEPT !.pc = "answering"]]
  /\ UNCHANGED <<mode, let_in, registered, banned, api, since, convs>>

ReceiveUnknown(s, u) ==
  /\ Free(s) /\ ConvOf(u) # "none"
  /\ u.kind \notin {"tap", "voice"} /\ Syncs(Handler(u))
  /\ running' = [running EXCEPT ![s] = [Handler(u) EXCEPT !.pc = "syncing"]]
  /\ UNCHANGED <<mode, let_in, registered, banned, api, since, convs>>

ReceiveAndRun(s, u) ==
  /\ Free(s) /\ ConvOf(u) # "none"
  /\ u.kind \notin {"tap", "voice"} /\ ~Syncs(Handler(u))
  /\ Run(s, Handler(u), registered)
  /\ UNCHANGED registered

Answered(s) ==
  /\ running[s].pc = "answering" /\ running[s].conv # "info"
  /\ Run(s, running[s], registered)
  /\ UNCHANGED registered

\* language_callback: the language is set before the person is looked up.
LanguageChosen(s) ==
  /\ running[s].pc = "answering" /\ running[s].conv = "info"
  /\ lang' = TRUE
  /\ running' = [running EXCEPT ![s].pc = IF registered THEN "replying" ELSE "syncing"]
  /\ UNCHANGED <<mode, let_in, subm, appl, draft, form, registered, banned, shown,
                 api, since>>

\* _sync_agent_from_api: an API that fails is taken for one that knows nothing.
ApprovedByAPIEvenBanned == api.agent

ApprovedByAPI == api.agent /\ ~api.banned

Synced(s) ==
  /\ running[s].pc = "syncing"
  /\ \E known \in {registered, registered \/ ApprovedByAPI} :
       registered' = known /\ Run(s, running[s], known)

-----------------------------------------------------------------------------
(* The answers are sent, and the library sets the state.                     *)

Later(h) ==
  /\ draft' = CASE h.later = "clear" -> EmptyDraft
                [] h.later = "drop voice" -> [draft EXCEPT !.voice = FALSE]
                [] OTHER -> draft
  /\ form' = IF h.later \in {"clear", "drop form"} THEN NoForm ELSE form

\* The summary under which a conversation stands, as long as it does.
Summarised(h) ==
  IF h.conv \notin {"submit", "apply"} THEN shown ELSE [shown EXCEPT ![h.conv] = h.report]

Replied(s) ==
  LET h == running[s] IN
  /\ h.pc = "replying"
  /\ subm' = IF h.conv = "submit" THEN h.ret ELSE subm
  /\ appl' = IF h.conv = "apply" THEN h.ret ELSE appl
  /\ shown' = Summarised(h)
  /\ Later(h)
  /\ running' = [running EXCEPT ![s] = Idle]
  /\ UNCHANGED <<mode, let_in, lang, registered, banned, api, since>>

\* A bot that goes on when its answer could not be sent.
SwallowFailure(s) ==
  LET h == running[s] IN
  /\ h.pc \in {"answering", "replying"}
  /\ subm' = IF h.pc = "replying" /\ h.conv = "submit" THEN h.ret ELSE subm
  /\ appl' = IF h.pc = "replying" /\ h.conv = "apply" THEN h.ret ELSE appl
  /\ running' = [running EXCEPT ![s] = Idle]
  /\ UNCHANGED <<mode, let_in, draft, form, shown, lang, registered, banned, api, since>>

\* TimedOut or NetworkError: the handler ends and the state stays.  The last of
\* the answers about an application is sent after its form was dropped.
TelegramFails(s) ==
  LET h == running[s] IN
  /\ h.pc \in {"answering", "replying"}
  /\ form' \in IF h.later = "drop form" THEN {form, NoForm} ELSE {form}
  /\ running' = [running EXCEPT ![s] = Idle]
  /\ UNCHANGED <<mode, let_in, subm, appl, draft, lang, registered, banned, shown,
                 api, since>>

-----------------------------------------------------------------------------
(* POST /submissions, /agents/applications and /agents/activate.             *)

\* submissions.create_from_bot: 403 for a banned agent; 400 for someone who is
\* no agent, for "other" without a label, for what the catalogue has not or no
\* longer has active.
SubmitAnswers(h) ==
  IF api.agent /\ api.banned THEN {"forbidden"}
  ELSE IF ~api.agent \/ h.report.market = None THEN {"refused"}
  ELSE {"refused", "triaging"}

\* agent_applications.submit_application: 422 for a form that is not complete,
\* 409 for an agent and for a second application.
ApplyAnswers(h) ==
  IF ~h.whole \/ api.applied \/ ApprovedByAPI THEN {"refused"} ELSE {"stored"}

\* agent_score.activate_with_invite: 400 for a code that cannot be used, 403 for
\* someone banned.
InviteAnswers == IF api.banned THEN {"refused"} ELSE {"refused", "activated"}

AnswersTo(h) == CASE h.conv = "submit" -> SubmitAnswers(h)
                  [] h.conv = "apply" -> ApplyAnswers(h)
                  [] OTHER -> InviteAnswers

PostArrives(s) ==
  LET h == running[s] IN
  /\ h.pc = "posting"
  /\ \E a \in AnswersTo(h) :
       /\ running' = [running EXCEPT ![s].pc = a]
       /\ api' = [api EXCEPT !.applied = @ \/ a = "stored", !.agent = @ \/ a = "activated"]
       /\ since' = [since EXCEPT !.approved = @ \/ a = "activated"]
  /\ UNCHANGED <<mode, let_in, registered, banned, convs>>

\* The draft of a confirmed report is cleared, and the form of an application
\* dropped, after the answer.
Told(s) ==
  LET c == running[s].conv IN
    running' = [running EXCEPT ![s] =
      Replying(c, [Effect(draft, END) EXCEPT
                     !.later = CASE c = "submit" -> "clear" [] c = "apply" -> "drop form"
                                 [] OTHER -> "nothing"], NoReport)]

\* The report is stored and committed; the request goes on with
\* triage_after_create and its call of the language model.
TriageDone(s) ==
  /\ running[s].pc = "triaging"
  /\ running' = [running EXCEPT ![s].pc = "stored"]
  /\ UNCHANGED <<mode, let_in, registered, banned, api, since, convs>>

\* The model may take 45 s and the bot waits 20 s; or it raises, the session is
\* rolled back, and reading the expired submission makes the answer a 500.
TriageTooSlow(s) ==
  /\ running[s].pc = "triaging"
  /\ Told(s)
  /\ UNCHANGED <<mode, let_in, registered, banned, api, since, convs>>

\* A bot that takes every refusal for a ban.
BanWhenRefused(pc) == IF pc \in {"forbidden", "refused"} THEN TRUE
                      ELSE IF pc = "stored" THEN FALSE ELSE banned

\* client.submit: 403 is remembered as a ban, 201 brings the score and lifts it.
BanAfter(pc) == IF pc = "forbidden" THEN TRUE
                ELSE IF pc = "stored" THEN FALSE ELSE banned

\* An activation the API made is kept by the bot only if the code is also one
\* of its own TELEGRAM_AGENT_INVITE_CODES.
PostAnswered(s) ==
  LET h == running[s] IN
  /\ h.pc \in {"stored", "refused", "forbidden", "activated"}
  /\ banned' = IF h.conv = "submit" THEN BanAfter(h.pc) ELSE banned
  /\ registered' \in IF h.pc = "activated" THEN {registered, TRUE} ELSE {registered}
  /\ Told(s)
  /\ UNCHANGED <<mode, let_in, api, since, convs>>

\* The request or its answer is lost, or takes longer than the bot waits.
PostFails(s) ==
  /\ running[s].pc \in {"posting", "stored", "refused", "forbidden", "activated"}
  /\ Told(s)
  /\ UNCHANGED <<mode, let_in, registered, banned, api, since, convs>>

-----------------------------------------------------------------------------
(* The API without the bot, and the end of the bot's process.                *)

AtAPI(a) ==
  /\ api' = a
  /\ since' = [approved |-> since.approved \/ (a.agent /\ ~a.banned),
               banned |-> since.banned \/ a.banned]
  /\ UNCHANGED <<mode, let_in, registered, banned, running, convs>>

\* Approval makes an agent and lifts a ban; the third flag bans.
Approve == api.applied /\ AtAPI([agent |-> TRUE, banned |-> FALSE, applied |-> FALSE])
Reject == api.applied /\ AtAPI([api EXCEPT !.applied = FALSE])
Ban == ApprovedByAPI /\ AtAPI([api EXCEPT !.banned = TRUE])

\* Nothing the bot keeps is on disk, its settings let in whom they did, and
\* drop_pending_updates drops what came while it was down.
Restart ==
  /\ subm' = END /\ appl' = END /\ draft' = EmptyDraft /\ form' = NoForm
  /\ lang' = FALSE /\ registered' = let_in /\ banned' = FALSE
  /\ running' = [s \in Slots |-> Idle]
  /\ shown' = [c \in {"submit", "apply"} |-> NoReport]
  /\ since' = [approved |-> api.agent /\ ~api.banned, banned |-> api.banned]
  /\ UNCHANGED <<mode, let_in, api>>

Next ==
  \/ \E s \in Slots :
       \/ \E u \in Updates : Receive(s, u) \/ ReceiveUnknown(s, u) \/ ReceiveAndRun(s, u)
       \/ Answered(s) \/ LanguageChosen(s) \/ Synced(s)
       \/ Replied(s) \/ TelegramFails(s)
       \/ PostArrives(s) \/ TriageDone(s) \/ TriageTooSlow(s)
       \/ PostAnswered(s) \/ PostFails(s)
  \/ Approve \/ Reject \/ Ban
  \/ Restart

Spec == Init /\ [][Next]_vars

-----------------------------------------------------------------------------
(* Properties.                                                               *)

Handlers ==
  [pc: {"idle", "answering", "syncing", "replying", "posting", "triaging",
        "stored", "refused", "forbidden", "activated"},
   conv: {"none", "submit", "apply", "info", "invite"},
   at: SubmitStates \union ApplyStates \union {END},
   upd: Updates \union {Update("none", None, None)},
   ret: SubmitStates \union ApplyStates \union {END},
   later: {"nothing", "clear", "drop voice", "drop form"},
   report: [market: Listed \union Labels \union {Other, None},
            commodity: Commodities \union {None},
            price: Prices \union Printouts \union {None}],
   whole: BOOLEAN,
   seen: [market: Listed \union Labels \union {Other, None},
          commodity: Commodities \union {None},
          price: Prices \union Printouts \union {None}]]

TypeOK ==
  /\ mode \in Modes /\ let_in \in Doors
  /\ subm \in SubmitStates \union {END} /\ appl \in ApplyStates \union {END}
  /\ draft \in Draft /\ form \in Form
  /\ lang \in BOOLEAN /\ registered \in BOOLEAN /\ banned \in BOOLEAN
  /\ \A s \in Slots : running[s] \in Handlers

\* In polling mode the report the bot sends reads as the last summary showed
\* it, whatever answers were lost, whichever of the Confirm buttons in the chat
\* was tapped, and whatever the other conversation did to user_data.  The price
\* that is sent may have more digits than the six that were shown.
SentIsLastShown ==
  \A s \in Slots :
    mode = "polling" /\ running[s].conv = "submit" /\ running[s].pc = "posting"
      => Summary(running[s].report) = running[s].seen

\* In polling mode an application that is stored names the market its summary
\* showed, though the summary shows a label whenever there is one.
AppliedIsShown ==
  \A s \in Slots :
    mode = "polling" /\ running[s].conv = "apply" /\ running[s].pc = "stored"
      => running[s].report.market = running[s].seen.market

\* The bot takes someone for banned only if the API has banned them since the
\* bot started: an API that refuses for another reason, or is not reached,
\* does not lock anyone out.
BanHasCause == banned => since.banned

\* Only someone the API has held for an approved agent since the bot started,
\* or whom the bot's settings let in, gets into the submit conversation:
\* neither a guest nor, after a restart, an agent banned before.
ReportersWereApproved == subm # END => since.approved \/ let_in
=============================================================================
