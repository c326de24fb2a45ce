----------------------------- MODULE SubmitFlow -----------------------------
(***************************************************************************)
(* The conversation in which an agent reports a price to the Telegram bot: *)
(* telegram_bot/handlers/submit.py, as the effect each handler has on the  *)
(* draft kept in context.user_data and on the state of the conversation.   *)
(* TelegramBot runs the handlers; nothing here changes a variable.         *)
(*                                                                         *)
(* A text is a model value: a price, a phone number or another name.       *)
(* voice_lang, the username and the wording of the answers are left out.   *)
(***************************************************************************)
EXTENDS FiniteSets

CONSTANTS
  Listed,       \* codes of the markets on the keyboard, "other" aside
  Other,        \* OTHER_MARKET_CODE
  Commodities,  \* codes of the commodities on the keyboard; each has its unit
  Prices,       \* texts PRICE_RE accepts with a value in range
  Printed,      \* what f"{price:g}", six significant digits, makes of each price
  Phones,       \* texts the apply conversation takes for a phone number
  Names,        \* other texts of two characters or more, menu labels included
  Skip,         \* the name that reads "skip"
  Junk,         \* a text of one character that is no digit
  None,
  SttEnabled    \* addis_stt_enabled(): an Addis AI key is configured

ASSUME FlowAssumption ==
  /\ Other \notin Listed
  /\ None \notin Listed \union {Other, Junk} \union Prices \union Phones \union Names
  /\ DOMAIN Printed = Prices
  /\ Skip \in Names /\ Junk \notin Prices \union Phones \union Names /\ SttEnabled \in BOOLEAN

END == "END"
Labels == Prices \union Phones \union Names       \* len(label) >= 2
Texts == Labels \union {Junk}

SubmitStates == {"CONSENT", "ENTRY_MODE", "MARKET", "MARKET_OTHER",
                 "MARKET_OTHER_CONFIRM", "COMMODITY", "PRICE", "CONFIRM"}

\* What submit keeps in user_data; an absent key is None or FALSE.
Draft == [consent: BOOLEAN, market: Listed \union {Other, None},
          label: Labels \union {None}, pending: Labels \union {None},
          voice: BOOLEAN, commodity: Commodities \union {None},
          price: Prices \union {None}]

EmptyDraft == [consent |-> FALSE, market |-> None, label |-> None,
               pending |-> None, voice |-> FALSE, commodity |-> None,
               price |-> None]

\* What arrives: a command or menu button that enters a conversation, /cancel,
\* a text, a voice note (val is what speech-to-text makes of it), or a tap on
\* an inline button, whose callback data is key:val.
Update(kind, key, val) == [kind |-> kind, key |-> key, val |-> val]

\* A menu button sends its label, which is a text.
IsText(u) == u.kind = "text" \/ (u.kind = "start" /\ u.key = "button")

\* The keyboards that go with a spoken market name, which apply uses too.
VoiceTaps(key, modes) == {Update("tap", key, v) : v \in {"yes", "retry", "lang"} \union modes}

SubmitTaps ==
  {Update("tap", "consent", v) : v \in {"yes", "no"}} \union
  {Update("tap", "entry", v) : v \in {"list", "voice"}} \union
  {Update("tap", "market", v) : v \in Listed \union {Other}} \union
  VoiceTaps("voice_mkt", {"choose"}) \union
  {Update("tap", "commodity", v) : v \in Commodities} \union
  {Update("tap", "confirm", v) : v \in {"yes", "edit_price"}} \union
  {Update("tap", "cancel", None)}

\* What speech-to-text makes of a voice note; None when the download, the
\* conversion or the transcription fails, or hears less than two characters.
Transcripts == Names \union {None}

\* The effect of a handler: the draft it leaves, the state it returns, and
\* what it does to the draft after its answers are sent.  "raise" stands for a
\* KeyError: the state stays as it is and the agent gets no answer.
Effect(d, ret) == [draft |-> d, ret |-> ret, later |-> "nothing"]
Stay(d, s) == Effect(d, s)
KeyMissing(d) == Effect(d, "raise")

-----------------------------------------------------------------------------
(* One operator per handler, on the draft d and the callback data or text v. *)

\* start, once the agent is known and not banned: _clear_flow_data.
Started(d) == Effect(EmptyDraft, "CONSENT")

Cancelled(d) == Effect(EmptyDraft, END)

\* localBan is the ban kept by the bot.
OnConsent(d, v, localBan) ==
  IF v = "no" \/ localBan THEN Effect(d, END)
  ELSE Effect([d EXCEPT !.consent = TRUE], "ENTRY_MODE")

OnEntryMode(d, v) ==
  CASE v = "list" -> Effect(d, "MARKET")
    [] v = "voice" /\ SttEnabled -> Effect(d, "MARKET_OTHER")
    [] OTHER -> Stay(d, "ENTRY_MODE")

OnMarket(d, v) ==
  Effect([d EXCEPT !.market = v, !.label = None],
         IF v = Other THEN "MARKET_OTHER" ELSE "COMMODITY")

OnOtherMarketText(d, text) ==
  IF d.voice \/ text = Junk THEN Stay(d, "MARKET_OTHER")
  ELSE Effect([d EXCEPT !.market = Other, !.label = text], "COMMODITY")

\* The keyboard of the recording language; its way back drops entry_voice
\* after the answers.
OnOtherMarketLang(d, v) ==
  IF v = "choose" THEN [Effect(d, "ENTRY_MODE") EXCEPT !.later = "drop voice"]
  ELSE Effect([d EXCEPT !.voice = TRUE], "MARKET_OTHER")

OnVoiceNote(d, heard) ==
  IF ~SttEnabled \/ heard = None THEN Stay(d, "MARKET_OTHER")
  ELSE Effect([d EXCEPT !.pending = heard], "MARKET_OTHER_CONFIRM")

OnVoiceConfirm(d, v) ==
  IF v = "retry" \/ (v = "yes" /\ d.pending = None) THEN Effect(d, "MARKET_OTHER")
  ELSE IF v = "yes"
       THEN Effect([d EXCEPT !.market = Other, !.label = d.pending,
                             !.pending = None, !.voice = FALSE], "COMMODITY")
       ELSE Stay(d, "MARKET_OTHER_CONFIRM")

OnCommodity(d, v) == Effect([d EXCEPT !.commodity = v], "PRICE")

\* A bot that keeps whatever number it is sent.
OnPriceUnchecked(d, text) == Effect([d EXCEPT !.price = text], "CONFIRM")

\* price_message and _ask_confirm, which needs the market and the commodity.
OnPrice(d, text) ==
  IF text \notin Prices THEN Stay(d, "PRICE")
  ELSE LET priced == [d EXCEPT !.price = text] IN
       IF d.market = None \/ d.commodity = None THEN KeyMissing(priced)
       ELSE Effect(priced, "CONFIRM")

\* What the API stores of the draft: a label counts for the other market only.
Report(d) == [market |-> IF d.market = Other THEN d.label ELSE d.market,
              commodity |-> d.commodity, price |-> d.price]
NoReport == [market |-> None, commodity |-> None, price |-> None]

\* What a confirm message shows of a report: the price to six digits, which for
\* a longer one is another price than the one that is sent.
Printouts == {Printed[p] : p \in Prices}
Summary(r) == [market |-> r.market, commodity |-> r.commodity,
               price |-> IF r.price \in Prices THEN Printed[r.price] ELSE None]

\* The keys DraftSubmission is built from.
Complete(d) == d.market # None /\ d.commodity # None /\ d.price # None /\ d.consent

\* "post" stands for client.submit, which TelegramBot goes on with.
OnConfirm(d, v) ==
  IF v = "edit_price" THEN Effect(d, "PRICE")
  ELSE IF Complete(d) THEN Effect(d, "post") ELSE KeyMissing(d)

-----------------------------------------------------------------------------
(* Dispatch: which updates the conversation takes in which state, and the    *)
(* handler it gives them to.                                                 *)

KeyOf(s) == CASE s = "CONSENT" -> "consent"
              [] s = "ENTRY_MODE" -> "entry"
              [] s = "MARKET" -> "market"
              [] s \in {"MARKET_OTHER", "MARKET_OTHER_CONFIRM"} -> "voice_mkt"
              [] s = "COMMODITY" -> "commodity"
              [] s = "CONFIRM" -> "confirm"
              [] OTHER -> "nothing"

SubmitTakes(s, u) ==
  \/ u.kind = "start"                             \* allow_reentry
  \/ /\ s # END
     /\ \/ u.kind = "cancel"
        \/ u.kind = "tap" /\ u.key = "cancel"
        \/ /\ u.kind = "tap" /\ u.key = KeyOf(s)
           /\ s = "MARKET_OTHER" => u.val \in {"lang", "choose"}
        \/ u.kind = "text" /\ s \in {"MARKET_OTHER", "PRICE"}
        \/ u.kind = "voice" /\ s = "MARKET_OTHER"

InState(s, u, d, localBan) ==
  CASE s = "CONSENT" -> OnConsent(d, u.val, localBan)
    [] s = "ENTRY_MODE" -> OnEntryMode(d, u.val)
    [] s = "MARKET" -> OnMarket(d, u.val)
    [] s = "MARKET_OTHER" /\ u.kind = "text" -> OnOtherMarketText(d, u.val)
    [] s = "MARKET_OTHER" /\ u.kind = "voice" -> OnVoiceNote(d, u.val)
    [] s = "MARKET_OTHER" /\ u.kind = "tap" -> OnOtherMarketLang(d, u.val)
    [] s = "MARKET_OTHER_CONFIRM" -> OnVoiceConfirm(d, u.val)
    [] s = "COMMODITY" -> OnCommodity(d, u.val)
    [] s = "PRICE" -> OnPrice(d, u.val)
    [] s = "CONFIRM" -> OnConfirm(d, u.val)

\* What starts a conversation goes before what a state takes.
SubmitEffect(s, u, d, localBan) ==
  IF u.kind = "start" THEN Started(d)
  ELSE IF u.kind = "cancel" \/ u.key = "cancel" THEN Cancelled(d)
  ELSE InState(s, u, d, localBan)
=============================================================================
