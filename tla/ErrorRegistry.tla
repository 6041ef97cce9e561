---------------------------- MODULE ErrorRegistry ----------------------------
(***************************************************************************)
(* i18n/i18n.go, rest/errors.go, rest/language.go, rest/server.go: at      *)
(* start a service loads the locale files of its modules (RegisterI18n)    *)
(* and registers their error codes (Register); then its handlers answer    *)
(* requests with HTTPErrors in the language of the request, while SetLang  *)
(* may change the default language.  Whatever is wrong stops the process   *)
(* (logger.Fatalf): it should be found at start, not by a request.         *)
(*                                                                         *)
(* A text is abstracted to the language it is in.  Left out: error         *)
(* details, links in the answer, status codes and headers, templates that  *)
(* fail on their data, and GetXLang.                                       *)
(***************************************************************************)
EXTENDS Naturals, FiniteSets, Sequences

CONSTANTS
  Langs,        \* language tags
  Builtin,      \* zh-CN and en-US
  Modules,      \* modules of the application: a locale directory, a list of codes
  CodesOf,      \* CodesOf[m]: the codes that module m registers
  Codes,        \* all error codes
  Public,       \* the codes of common_errors.go
  OtherIds,     \* messages that belong to no code
  FileSets,     \* possible contents of the locale directories
  Handlers,     \* goroutines that answer requests
  None          \* no language, no error, no module

Parts == {"Description", "Solution", "ErrorLink"}
Ids == (Codes \X Parts) \cup OtherIds

(* A locale file: its language, its messages, those that do not parse.     *)
Files == [lang : Langs, ids : SUBSET Ids, broken : SUBSET Ids]

(* The HTTPError: the languages of its texts, None for an empty one.       *)
Errors == [code : Codes, lang : Langs, desc : Langs \cup {None}, sol : Langs \cup {None}]

ASSUME RegistryAssumption ==
  /\ Builtin \subseteq Langs /\ Builtin # {}
  /\ Public \subseteq Codes
  /\ IsFiniteSet(Ids)
  /\ CodesOf \in [Modules -> SUBSET Codes]
  /\ FileSets \subseteq [Modules -> Seq(Files)]
  /\ None \notin Langs \cup Codes \cup Modules \cup Errors \cup [code : Codes, lang : Langs]
  /\ \A S \in SUBSET Langs : S # None

VARIABLES
  status,    \* "startup", "serving" or "stopped"
  culprit,   \* history: code and language that stopped a serving process
  files,     \* files[m]: the locale files of module m
  loading,   \* the module whose files RegisterI18n reads, and the next file
  loaded,    \* the languages in iLocalizer
  messages,  \* iLocalizer
  broken,    \* the messages in it that do not parse
  languages, \* Languages
  default,   \* DefaultLanguage
  allErrs,   \* allErrs[c]: the languages code c has texts in, or None
  header,    \* header[h]: the X-Language header of handler h's request
  ask,       \* ask[h]: the language in the context of the request
  err,       \* err[h]: the HTTPError handler h has made
  seen       \* history: default languages since the request began

i18nVars == <<files, loading, loaded, messages, broken>>
requestVars == <<header, ask, err, seen>>
vars == <<status, culprit, i18nVars, languages, default, allErrs, requestVars>>

NotLoading == [module |-> None, next |-> 1]

Init ==
  /\ status = "startup"
  /\ culprit = None
  /\ files \in FileSets
  /\ loading = NotLoading
  /\ loaded = {}
  /\ messages = [l \in Langs |-> {}]
  /\ broken = [l \in Langs |-> {}]
  /\ languages = Builtin
  /\ default \in Builtin
  /\ allErrs = [c \in Codes |-> IF c \in Public THEN Builtin ELSE None]
  /\ header = [h \in Handlers |-> None]
  /\ ask = [h \in Handlers |-> None]
  /\ err = [h \in Handlers |-> None]
  /\ seen = [h \in Handlers |-> {}]

(* logger.Fatalf at start, and in a request for an error.                  *)
Stop == status' = "stopped" /\ UNCHANGED culprit
StopServing(c, l) == status' = "stopped" /\ culprit' = [code |-> c, lang |-> l]

----------------------------------------------------------------------------
(* i18n *)

RegisterI18n(m) ==
  /\ status = "startup"
  /\ loading = NotLoading
  /\ loading' = [module |-> m, next |-> 1]
  /\ UNCHANGED <<status, culprit, files, loaded, messages, broken, languages, default, allErrs, requestVars>>

File == files[loading.module][loading.next]

FileLeft ==
  /\ status = "startup"
  /\ loading.module # None
  /\ loading.next <= Len(files[loading.module])

(* One file of the directory; its messages must be new in its language.    *)
LoadFile ==
  /\ FileLeft
  /\ File.ids \cap messages[File.lang] = {}
  /\ loaded' = loaded \cup {File.lang}
  /\ messages' = [messages EXCEPT ![File.lang] = @ \cup File.ids]
  /\ broken' = [broken EXCEPT ![File.lang] = @ \cup (File.broken \cap File.ids)]
  /\ loading' = [loading EXCEPT !.next = @ + 1]
  /\ UNCHANGED <<status, culprit, files, languages, default, allErrs, requestVars>>

(* A directory or file that cannot be read or parsed, an empty message,    *)
(* one that exists.                                                        *)
LoadFileFails ==
  /\ status = "startup"
  /\ loading.module # None
  /\ loading.next = 1 \/ FileLeft
  /\ Stop
  /\ UNCHANGED <<i18nVars, languages, default, allErrs, requestVars>>

(* A bug: the lengths of the maps are not compared.                        *)
AgreesWithNoLength(first) == \A l \in loaded : messages[first] \subseteq messages[l]

(* checkLanguageMap compares each language with the one that the iteration *)
(* of the map happens to give first.                                       *)
AgreesWith(first) ==
  \A l \in loaded :
    /\ Cardinality(messages[l]) = Cardinality(messages[first])
    /\ messages[first] \subseteq messages[l]

(* The end of RegisterI18n.                                                *)
CheckLanguageMap ==
  /\ status = "startup"
  /\ loading.module # None
  /\ loading.next > Len(files[loading.module])
  /\ loading' = NotLoading
  /\ \/ (loaded = {} \/ \E first \in loaded : AgreesWith(first)) /\ UNCHANGED <<status, culprit>>
     \/ (\E first \in loaded : ~AgreesWith(first)) /\ Stop
  /\ UNCHANGED <<files, loaded, messages, broken, languages, default, allErrs, requestVars>>

(* Translate finds the message and can parse it; if not, it is fatal.      *)
Translates(l, id) == l \in loaded /\ id \in messages[l] \ broken[l]

----------------------------------------------------------------------------
(* The table of errors *)

(* The application adds a language to the map of supported ones.           *)
AddLanguage(l) ==
  /\ status = "startup"
  /\ languages' = languages \cup {l}
  /\ UNCHANGED <<status, culprit, i18nVars, default, allErrs, requestVars>>

(* A bug: only descriptions are translated when a code is registered.      *)
RegisterDescriptions(m) ==
  /\ status = "startup" /\ loading = NotLoading
  /\ IF \A c \in CodesOf[m] : allErrs[c] = None /\ \A l \in languages : Translates(l, <<c, "Description">>)
     THEN /\ allErrs' = [c \in Codes |-> IF c \in CodesOf[m] THEN languages ELSE allErrs[c]]
          /\ UNCHANGED <<status, culprit>>
     ELSE Stop /\ UNCHANGED allErrs
  /\ UNCHANGED <<i18nVars, languages, default, requestVars>>

(* Each code must be new and have its three texts in every language.       *)
Register(m) ==
  /\ status = "startup" /\ loading = NotLoading
  /\ IF \A c \in CodesOf[m] :
          allErrs[c] = None /\ \A l \in languages, p \in Parts : Translates(l, <<c, p>>)
     THEN /\ allErrs' = [c \in Codes |-> IF c \in CodesOf[m] THEN languages ELSE allErrs[c]]
          /\ UNCHANGED <<status, culprit>>
     ELSE Stop /\ UNCHANGED allErrs
  /\ UNCHANGED <<i18nVars, languages, default, requestVars>>

(* The application starts to serve.                                        *)
Serve ==
  /\ status = "startup" /\ loading = NotLoading
  /\ status' = "serving"
  /\ UNCHANGED <<culprit, i18nVars, languages, default, allErrs, requestVars>>

----------------------------------------------------------------------------
(* Languages *)

GetBCP47(l) == IF l \in Builtin THEN l ELSE default

(* A bug: the argument is taken as it is.                                  *)
SetLangAny(l) ==
  /\ status # "stopped"
  /\ default' = l
  /\ seen' = [h \in Handlers |-> seen[h] \cup {l}]
  /\ UNCHANGED <<status, culprit, i18nVars, languages, allErrs, header, ask, err>>

SetLang(l) ==
  /\ status # "stopped"
  /\ default' = GetBCP47(l)
  /\ seen' = [h \in Handlers |-> seen[h] \cup {default'}]
  /\ UNCHANGED <<status, culprit, i18nVars, languages, allErrs, header, ask, err>>

(* GetLanguageByCtx.                                                       *)
LanguageByCtx(l) == IF l \in languages THEN l ELSE default

----------------------------------------------------------------------------
(* Requests *)

(* A handler makes its context with GetLanguageCtx, or without.            *)
BeginRequest(h, l, own) ==
  /\ status = "serving"
  /\ header' = [header EXCEPT ![h] = l]
  /\ ask' = [ask EXCEPT ![h] = IF own THEN None ELSE GetBCP47(l)]
  /\ err' = [err EXCEPT ![h] = None]
  /\ seen' = [seen EXCEPT ![h] = {default}]
  /\ UNCHANGED <<status, culprit, i18nVars, languages, default, allErrs>>

(* The application puts a language of its own into the context.            *)
BeginWithLanguage(h, l) ==
  /\ status = "serving"
  /\ header' = [header EXCEPT ![h] = None]
  /\ ask' = [ask EXCEPT ![h] = l]
  /\ err' = [err EXCEPT ![h] = None]
  /\ seen' = [seen EXCEPT ![h] = {default}]
  /\ UNCHANGED <<status, culprit, i18nVars, languages, default, allErrs>>

(* NewHTTPError in language l: the code must be known, its language need   *)
(* not be.                                                                 *)
MakeError(h, c, l) ==
  IF allErrs[c] = None
  THEN StopServing(c, l) /\ UNCHANGED err
  ELSE LET text == IF l \in allErrs[c] THEN l ELSE None
       IN  /\ err' = [err EXCEPT ![h] = [code |-> c, lang |-> l, desc |-> text, sol |-> text]]
           /\ UNCHANGED <<status, culprit>>

NewHTTPError(h, c) ==
  /\ status = "serving"
  /\ seen[h] # {}
  /\ MakeError(h, c, LanguageByCtx(ask[h]))
  /\ UNCHANGED <<i18nVars, languages, default, allErrs, header, ask, seen>>

(* ReplyError of another error, ReplyOK of a body that cannot be encoded:  *)
(* an internal error, in the language of the header.                       *)
ReplyInternal(h, c) ==
  /\ status = "serving"
  /\ seen[h] # {}
  /\ c \in Public
  /\ MakeError(h, c, LanguageByCtx(GetBCP47(header[h])))
  /\ UNCHANGED <<i18nVars, languages, default, allErrs, header, ask, seen>>

(* A bug: the text is taken in the language of the context.                *)
WithDescriptionAsked(h) ==
  /\ status = "serving"
  /\ err[h] # None
  /\ LET l == LanguageByCtx(ask[h])
     IN  IF Translates(l, <<err[h].code, "Description">>)
         THEN err' = [err EXCEPT ![h].desc = l] /\ UNCHANGED <<status, culprit>>
         ELSE StopServing(err[h].code, l) /\ UNCHANGED err
  /\ UNCHANGED <<i18nVars, languages, default, allErrs, header, ask, seen>>

WithDescription(h) ==
  /\ status = "serving"
  /\ err[h] # None
  /\ LET l == err[h].lang
     IN  IF Translates(l, <<err[h].code, "Description">>)
         THEN err' = [err EXCEPT ![h].desc = l] /\ UNCHANGED <<status, culprit>>
         ELSE StopServing(err[h].code, l) /\ UNCHANGED err
  /\ UNCHANGED <<i18nVars, languages, default, allErrs, header, ask, seen>>

WithSolution(h) ==
  /\ status = "serving"
  /\ err[h] # None
  /\ LET l == err[h].lang
     IN  IF Translates(l, <<err[h].code, "Solution">>)
         THEN err' = [err EXCEPT ![h].sol = l] /\ UNCHANGED <<status, culprit>>
         ELSE StopServing(err[h].code, l) /\ UNCHANGED err
  /\ UNCHANGED <<i18nVars, languages, default, allErrs, header, ask, seen>>

----------------------------------------------------------------------------
StartupStep ==
  \/ \E m \in Modules : RegisterI18n(m) \/ Register(m)
  \/ LoadFile
  \/ LoadFileFails
  \/ CheckLanguageMap
  \/ \E l \in Langs : AddLanguage(l)
  \/ Serve

HandlerStep(h) ==
  \/ \E l \in Langs \cup {None}, own \in BOOLEAN : BeginRequest(h, l, own)
  \/ \E l \in Langs : BeginWithLanguage(h, l)
  \/ \E c \in Codes : NewHTTPError(h, c) \/ ReplyInternal(h, c)
  \/ WithDescription(h)
  \/ WithSolution(h)

Next ==
  \/ StartupStep
  \/ \E l \in Langs \cup {None} : SetLang(l)
  \/ \E h \in Handlers : HandlerStep(h)

Spec == Init /\ [][Next]_vars

----------------------------------------------------------------------------
(* Properties *)

TypeOK ==
  /\ status \in {"startup", "serving", "stopped"}
  /\ culprit \in [code : Codes, lang : Langs] \cup {None}
  /\ files \in [Modules -> Seq(Files)]
  /\ loading \in [module : Modules \cup {None}, next : Nat \ {0}]
  /\ loaded \in SUBSET Langs
  /\ messages \in [Langs -> SUBSET Ids]
  /\ broken \in [Langs -> SUBSET Ids]
  /\ languages \in SUBSET Langs
  /\ default \in Builtin
  /\ allErrs \in [Codes -> (SUBSET Langs) \cup {None}]
  /\ header \in [Handlers -> Langs \cup {None}]
  /\ ask \in [Handlers -> Langs \cup {None}]
  /\ err \in [Handlers -> Errors \cup {None}]
  /\ seen \in [Handlers -> SUBSET Builtin]

(* Whenever RegisterI18n has returned, all languages have the same         *)
(* messages, whichever of them the check began with and whatever other     *)
(* directories were loaded before.  (i18n.go:81-106.)                      *)
LanguagesAgree ==
  status # "stopped" /\ loading = NotLoading =>
    \A k, l \in loaded : messages[k] = messages[l]

(* A request can stop the process only with a code that was never          *)
(* registered, with a public one, which has no messages, or in a language  *)
(* that was added after the code was registered: every other mistake in    *)
(* the locale files is found at start.  (errors.go:26-44, 79-89,           *)
(* i18n.go:141-172.)                                                       *)
FoundAtStart ==
  culprit # None =>
    \/ culprit.code \in Public
    \/ allErrs[culprit.code] = None
    \/ culprit.lang \notin allErrs[culprit.code]

(* The texts of an error are all in its language, and this is the language *)
(* of the request's context, or of its header, when that is supported, and *)
(* otherwise a default language of the time of the request: SetLang cannot *)
(* mix languages in an answer.  (language.go:66-92, errors.go:53-89.)      *)
AnswerLanguage ==
  \A h \in Handlers : err[h] # None =>
    /\ {err[h].desc, err[h].sol} \subseteq {err[h].lang, None}
    /\ err[h].lang \in ({ask[h], header[h]} \cap languages) \cup seen[h]
    /\ header[h] \in Builtin /\ ask[h] # None => err[h].lang = header[h]

(* An error is made only in a language that its code has texts in; if not, *)
(* the process stops.  (errors.go:60-63.)                                  *)
CompleteErrors ==
  \A h \in Handlers : err[h] # None => err[h].desc # None /\ err[h].sol # None
==============================================================================
