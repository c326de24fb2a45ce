----------------------------- MODULE ApplyFlow -----------------------------
(***************************************************************************)
(* The conversation in which someone applies to become an agent:           *)
(* telegram_bot/handlers/apply.py, as the effect of each handler on        *)
(* user_data["apply"] and on the state of the conversation.  Its data is   *)
(* the set of keys filled and the market; city, area and languages, which  *)
(* the API does not require, are left out.                                 *)
(***************************************************************************)
EXTENDS SubmitFlow

ApplyStates == {"FULL_NAME", "PHONE", "CITY", "CITY_OTHER", "SUBCITY",
                "SUBCITY_OTHER", "MARKET", "MARKET_OTHER", "MARKET_OTHER_CONFIRM",
                "FREQUENCY", "LANGUAGES", "CONSENT", "CONFIRM"}

\* user_data["apply"]; present is FALSE when there is no such key.
Form == [present: BOOLEAN, filled: SUBSET {"name", "phone", "frequency"},
         market: Listed \union {Other, None}, label: Labels \union {None},
         pending: Labels \union {None}]

NoForm == [present |-> FALSE, filled |-> {}, market |-> None,
           label |-> None, pending |-> None]
NewForm == [NoForm EXCEPT !.present = TRUE]

\* City, area and languages.
ProfileTaps ==
  {Update("tap", "apply_city", v) : v \in {"addis_ababa", "other"}} \union
  {Update("tap", "apply_subcity", v) : v \in {"named", "skip", "other"}} \union
  {Update("tap", "apply_lang", v) : v \in {"toggle", "done"}}

ApplyTaps ==
  {Update("tap", "apply_market", v) : v \in Listed \union {Other}} \union
  {Update("tap", "apply_freq", "daily"), Update("tap", "apply_consent", "yes"),
   Update("tap", "apply_confirm", "yes"), Update("tap", "apply_cancel", None)} \union
  ProfileTaps \union VoiceTaps("apply_voice", {"type", "voice"})

-----------------------------------------------------------------------------
\* setdefault("apply", {}): some handlers make the key, the others raise.
Held(f) == [f EXCEPT !.present = TRUE]
NeedForm(f, effect) == IF f.present THEN effect ELSE KeyMissing(f)

ApplyStartedAgain(f) == Effect([f EXCEPT !.present = TRUE], "FULL_NAME")

ApplyStarted(f) == Effect(NewForm, "FULL_NAME")

ApplyCancelled(f) == Effect(NoForm, END)

OnFullName(f, text) ==
  IF text = Junk THEN Stay(f, "FULL_NAME")
  ELSE Effect([Held(f) EXCEPT !.filled = @ \union {"name"}], "PHONE")

OnPhone(f, text) ==
  IF text \notin Phones THEN Stay(f, "PHONE")
  ELSE NeedForm(f, Effect([f EXCEPT !.filled = @ \union {"phone"}], "CITY"))

OnCity(f, v) ==
  IF v = "other" THEN Effect(f, "CITY_OTHER") ELSE NeedForm(f, Effect(f, "SUBCITY"))

OnCityText(f, text) ==
  IF text = Junk THEN Stay(f, "CITY_OTHER")
  ELSE NeedForm(f, Effect(f, "SUBCITY_OTHER"))

\* The answer to the tap reads the area back from the form, skipped or not.
OnSubcity(f, v) ==
  IF v = "other" THEN Effect(f, "SUBCITY_OTHER") ELSE NeedForm(f, Effect(f, "MARKET"))

\* "skip" leaves the form alone, which may then be missing.
OnSubcityText(f, text) ==
  IF text = Skip THEN Effect(f, "MARKET") ELSE NeedForm(f, Effect(f, "MARKET"))

OnApplyMarket(f, v) ==
  NeedForm(f, Effect([f EXCEPT !.market = v],
                     IF v = Other THEN "MARKET_OTHER" ELSE "FREQUENCY"))

OnApplyOtherText(f, text) ==
  IF text = Junk THEN Stay(f, "MARKET_OTHER")
  ELSE NeedForm(f, Effect([f EXCEPT !.market = Other, !.label = text], "FREQUENCY"))

OnApplyOtherMode(f, v) == Effect(Held(f), "MARKET_OTHER")

OnApplyVoiceNote(f, heard) ==
  IF ~SttEnabled THEN Stay(f, "MARKET_OTHER")
  ELSE IF heard = None THEN Effect(Held(f), "MARKET_OTHER")
  ELSE Effect([Held(f) EXCEPT !.pending = heard], "MARKET_OTHER_CONFIRM")

OnApplyVoiceConfirm(f, v) ==
  IF v \in {"lang", "retry"} \/ (v = "yes" /\ f.pending = None)
  THEN Effect(Held(f), "MARKET_OTHER")
  ELSE IF v = "yes"
       THEN Effect([f EXCEPT !.market = Other, !.label = f.pending,
                             !.pending = None], "FREQUENCY")
       ELSE Effect(Held(f), "MARKET_OTHER_CONFIRM")

OnFrequency(f, v) ==
  NeedForm(f, Effect([f EXCEPT !.filled = @ \union {"frequency"}], "LANGUAGES"))

OnLanguages(f, v) ==
  IF v = "toggle" THEN Stay(Held(f), "LANGUAGES") ELSE Effect(Held(f), "CONSENT")

OnApplyConsent(f, v) == NeedForm(f, Effect(f, "CONFIRM"))

\* The summary shows the label if there is one, else the code.
SummaryMarket(f) == IF f.label # None THEN f.label ELSE f.market

\* The market the API stores: the code, with the label as a note that says
\* which market "other" is.
AppliedMarket(f) == IF f.market = Other THEN f.label ELSE f.market

\* What AgentApplicationCreate requires: without it, 422.
FormComplete(f) == f.filled = {"name", "phone", "frequency"} /\ f.market # None

OnApplyConfirm(f, v) == Effect(f, "post")

-----------------------------------------------------------------------------
ApplyKeyOf(s) == CASE s = "CITY" -> "apply_city"
                   [] s = "SUBCITY" -> "apply_subcity"
                   [] s = "MARKET" -> "apply_market"
                   [] s \in {"MARKET_OTHER", "MARKET_OTHER_CONFIRM"} -> "apply_voice"
                   [] s = "FREQUENCY" -> "apply_freq"
                   [] s = "LANGUAGES" -> "apply_lang"
                   [] s = "CONSENT" -> "apply_consent"
                   [] s = "CONFIRM" -> "apply_confirm"
                   [] OTHER -> "nothing"

\* A mode or language button is taken where the market name is awaited, every
\* apply_voice button where the heard name is to be confirmed.
ApplyTakes(s, u) ==
  \/ u.kind = "apply"
  \/ /\ s # END
     /\ \/ u.kind = "cancel"
        \/ u.kind = "tap" /\ u.key = "apply_cancel"
        \/ /\ u.kind = "tap" /\ u.key = ApplyKeyOf(s)
           /\ s = "MARKET_OTHER" => u.val \in {"type", "voice", "lang"}
        \/ /\ IsText(u)
           /\ s \in {"FULL_NAME", "PHONE", "CITY_OTHER", "SUBCITY_OTHER", "MARKET_OTHER"}
        \/ u.kind = "voice" /\ s = "MARKET_OTHER"

InApplyState(s, u, f) ==
  CASE s = "FULL_NAME" -> OnFullName(f, u.val)
    [] s = "PHONE" -> OnPhone(f, u.val)
    [] s = "CITY" -> OnCity(f, u.val)
    [] s = "CITY_OTHER" -> OnCityText(f, u.val)
    [] s = "SUBCITY" -> OnSubcity(f, u.val)
    [] s = "SUBCITY_OTHER" -> OnSubcityText(f, u.val)
    [] s = "MARKET" -> OnApplyMarket(f, u.val)
    [] s = "MARKET_OTHER" /\ IsText(u) -> OnApplyOtherText(f, u.val)
    [] s = "MARKET_OTHER" /\ u.kind = "voice" -> OnApplyVoiceNote(f, u.val)
    [] s = "MARKET_OTHER" /\ u.kind = "tap" -> OnApplyOtherMode(f, u.val)
    [] s = "MARKET_OTHER_CONFIRM" -> OnApplyVoiceConfirm(f, u.val)
    [] s = "FREQUENCY" -> OnFrequency(f, u.val)
    [] s = "LANGUAGES" -> OnLanguages(f, u.val)
    [] s = "CONSENT" -> OnApplyConsent(f, u.val)
    [] s = "CONFIRM" -> OnApplyConfirm(f, u.val)

ApplyEffect(s, u, f) ==
  IF u.kind = "apply" THEN ApplyStarted(f)
  ELSE IF u.kind = "cancel" \/ u.key = "apply_cancel" THEN ApplyCancelled(f)
  ELSE InApplyState(s, u, f)
=============================================================================
