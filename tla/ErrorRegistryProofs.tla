------------------------- MODULE ErrorRegistryProofs -------------------------
(***************************************************************************)
(* The properties of ErrorRegistry for every number of languages, modules, *)
(* codes and handlers, and every contents of the locale files.             *)
(***************************************************************************)
EXTENDS ErrorRegistry, FiniteSetTheorems, TLAPS

(* A field of the file that is loaded next.                                *)
LEMMA FileType ==
  ASSUME TypeOK, FileLeft
  PROVE  /\ File \in Files
         /\ loading.module \in Modules
<1>1. /\ loading.module \in Modules /\ loading.next \in Nat \ {0}
      /\ loading.next <= Len(files[loading.module])
  BY DEF FileLeft, TypeOK
<1>2. files[loading.module] \in Seq(Files)
  BY <1>1 DEF TypeOK
<1>. QED BY <1>1, <1>2 DEF File

(* Languages that a handler asks for.                                      *)
LEMMA LanguageTypes ==
  ASSUME TypeOK
  PROVE  /\ \A l : GetBCP47(l) \in Builtin
         /\ \A l \in Langs \cup {None} : l \in languages => LanguageByCtx(l) = l
         /\ \A l \in Langs \cup {None} : LanguageByCtx(l) \in Langs
         /\ \A l \in Langs \cup {None} : LanguageByCtx(l) \in {l} \cap languages \/ LanguageByCtx(l) = default
BY RegistryAssumption DEF RegistryAssumption, TypeOK, GetBCP47, LanguageByCtx

(* The outcomes of making an error.                                        *)
LEMMA MakeErrorType ==
  ASSUME TypeOK, NEW h \in Handlers, NEW c \in Codes, NEW l \in Langs, MakeError(h, c, l)
  PROVE  \/ /\ allErrs[c] = None /\ err' = err /\ status' = "stopped"
            /\ culprit' = [code |-> c, lang |-> l]
         \/ /\ allErrs[c] # None /\ UNCHANGED <<status, culprit>>
            /\ \E e \in Errors : /\ err' = [err EXCEPT ![h] = e]
                                 /\ e.code = c /\ e.lang = l
                                 /\ e.desc \in {l, None} /\ e.sol \in {l, None}
<1>1. CASE allErrs[c] = None
  BY <1>1 DEF MakeError, StopServing
<1>2. CASE allErrs[c] # None
  <2>. DEFINE text == IF l \in allErrs[c] THEN l ELSE None
              e == [code |-> c, lang |-> l, desc |-> text, sol |-> text]
  <2>1. e \in Errors /\ e.code = c /\ e.lang = l /\ e.desc \in {l, None} /\ e.sol \in {l, None}
    BY DEF Errors
  <2>2. err' = [err EXCEPT ![h] = e] /\ UNCHANGED <<status, culprit>>
    BY <1>2 DEF MakeError
  <2>. HIDE DEF e
  <2>. QED BY <1>2, <2>1, <2>2
<1>. QED BY <1>1, <1>2

(* The outcomes of a new text for an error: field f becomes its language,  *)
(* or the process stops.                                                   *)
LEMMA NewTextType ==
  ASSUME TypeOK, NEW h \in Handlers, WithDescription(h) \/ WithSolution(h)
  PROVE  /\ err[h] \in Errors
         /\ \/ /\ UNCHANGED <<status, culprit>>
               /\ \E e \in Errors : /\ err' = [err EXCEPT ![h] = e]
                                    /\ e.code = err[h].code /\ e.lang = err[h].lang
                                    /\ e.desc \in {e.lang, err[h].desc}
                                    /\ e.sol \in {e.lang, err[h].sol}
            \/ /\ err' = err /\ status' = "stopped"
               /\ culprit' = [code |-> err[h].code, lang |-> err[h].lang]
               /\ \E p \in Parts : ~Translates(err[h].lang, <<err[h].code, p>>)
<1>0. err[h] \in Errors
  BY DEF WithDescription, WithSolution, TypeOK
<1>1. CASE WithDescription(h)
  <2>. DEFINE e == [err[h] EXCEPT !.desc = err[h].lang]
  <2>1. e \in Errors /\ e.code = err[h].code /\ e.lang = err[h].lang /\ e.desc = err[h].lang
        /\ e.sol = err[h].sol
    BY <1>0 DEF Errors
  <2>2. \/ err' = [err EXCEPT ![h] = e] /\ UNCHANGED <<status, culprit>>
        \/ /\ err' = err /\ status' = "stopped"
           /\ culprit' = [code |-> err[h].code, lang |-> err[h].lang]
           /\ ~Translates(err[h].lang, <<err[h].code, "Description">>)
    BY <1>1 DEF WithDescription, StopServing
  <2>. HIDE DEF e
  <2>. QED BY <1>0, <2>1, <2>2 DEF Parts
<1>2. CASE WithSolution(h)
  <2>. DEFINE e == [err[h] EXCEPT !.sol = err[h].lang]
  <2>1. e \in Errors /\ e.code = err[h].code /\ e.lang = err[h].lang /\ e.sol = err[h].lang
        /\ e.desc = err[h].desc
    BY <1>0 DEF Errors
  <2>2. \/ err' = [err EXCEPT ![h] = e] /\ UNCHANGED <<status, culprit>>
        \/ /\ err' = err /\ status' = "stopped"
           /\ culprit' = [code |-> err[h].code, lang |-> err[h].lang]
           /\ ~Translates(err[h].lang, <<err[h].code, "Solution">>)
    BY <1>2 DEF WithSolution, StopServing
  <2>. HIDE DEF e
  <2>. QED BY <1>0, <2>1, <2>2 DEF Parts
<1>. QED BY <1>1, <1>2

----------------------------------------------------------------------------
(* Every variable has its type, and the default language is built in.      *)
THEOREM TypeCorrect == Spec => []TypeOK
<1>1. Init => TypeOK
  BY RegistryAssumption DEF RegistryAssumption, Init, TypeOK, NotLoading
<1>2. TypeOK /\ [Next]_vars => TypeOK'
  <2>. SUFFICES ASSUME TypeOK, [Next]_vars
                PROVE  TypeOK'
    OBVIOUS
  <2>. USE DEF i18nVars, requestVars
  <2>1. ASSUME NEW m \in Modules, RegisterI18n(m)
        PROVE  TypeOK'
    BY <2>1 DEF RegisterI18n, TypeOK
  <2>2. CASE LoadFile
    <3>1. FileLeft /\ File \in Files
      BY <2>2, FileType DEF LoadFile
    <3>2. /\ File.lang \in Langs /\ File.ids \in SUBSET Ids
          /\ File.broken \cap File.ids \in SUBSET Ids
      BY <3>1 DEF Files
    <3>3. /\ loaded' \in SUBSET Langs /\ messages' \in [Langs -> SUBSET Ids]
          /\ broken' \in [Langs -> SUBSET Ids]
      <4>1. /\ loaded \in SUBSET Langs /\ messages \in [Langs -> SUBSET Ids]
            /\ broken \in [Langs -> SUBSET Ids]
        BY DEF TypeOK
      <4>2. /\ loaded' = loaded \cup {File.lang}
            /\ messages' = [messages EXCEPT ![File.lang] = messages[File.lang] \cup File.ids]
            /\ broken' = [broken EXCEPT ![File.lang] = broken[File.lang] \cup (File.broken \cap File.ids)]
        BY <2>2 DEF LoadFile
      <4>3. File.broken \cap File.ids \in SUBSET Ids
        BY <3>2
      <4>4. /\ messages[File.lang] \cup File.ids \in SUBSET Ids
            /\ broken[File.lang] \cup (File.broken \cap File.ids) \in SUBSET Ids
        BY <3>2, <4>1, <4>3
      <4>5. messages' \in [Langs -> SUBSET Ids]
        BY <4>1, <4>2, <4>4
      <4>6. broken' \in [Langs -> SUBSET Ids]
        BY <4>1, <4>2, <4>4
      <4>7. loaded' \in SUBSET Langs
        BY <3>2, <4>1, <4>2
      <4>. QED BY <4>5, <4>6, <4>7
    <3>4. loading' \in [module : Modules \cup {None}, next : Nat \ {0}]
      <4>1. loading \in [module : Modules \cup {None}, next : Nat \ {0}]
        BY DEF TypeOK
      <4>2. loading' = [loading EXCEPT !.next = loading.next + 1]
        BY <2>2 DEF LoadFile
      <4>. QED BY <4>1, <4>2
    <3>. QED BY <2>2, <3>3, <3>4 DEF LoadFile, TypeOK
  <2>3. CASE LoadFileFails
    BY <2>3 DEF LoadFileFails, Stop, TypeOK
  <2>4. CASE CheckLanguageMap
    BY <2>4 DEF CheckLanguageMap, Stop, NotLoading, TypeOK
  <2>5. ASSUME NEW l \in Langs, AddLanguage(l)
        PROVE  TypeOK'
    BY <2>5 DEF AddLanguage, TypeOK
  <2>6. ASSUME NEW m \in Modules, Register(m)
        PROVE  TypeOK'
    BY <2>6 DEF Register, Stop, TypeOK
  <2>7. CASE Serve
    BY <2>7 DEF Serve, TypeOK
  <2>8. ASSUME NEW l \in Langs \cup {None}, SetLang(l)
        PROVE  TypeOK'
    <3>1. default' \in Builtin
      BY <2>8, LanguageTypes DEF SetLang
    <3>. QED BY <2>8, <3>1 DEF SetLang, TypeOK
  <2>9. ASSUME NEW h \in Handlers, NEW l \in Langs \cup {None}, NEW own \in BOOLEAN,
               BeginRequest(h, l, own)
        PROVE  TypeOK'
    <3>1. GetBCP47(l) \in Langs
      BY LanguageTypes, RegistryAssumption DEF RegistryAssumption
    <3>. QED BY <2>9, <3>1 DEF BeginRequest, TypeOK
  <2>10. ASSUME NEW h \in Handlers, NEW l \in Langs, BeginWithLanguage(h, l)
         PROVE  TypeOK'
    BY <2>10 DEF BeginWithLanguage, TypeOK
  <2>11. ASSUME NEW h \in Handlers, NEW c \in Codes, NEW l \in Langs, MakeError(h, c, l),
                UNCHANGED <<i18nVars, languages, default, allErrs, header, ask, seen>>
         PROVE  TypeOK'
    <3>1. /\ status' \in {status, "stopped"} /\ culprit' \in {culprit, [code |-> c, lang |-> l]}
          /\ \/ err' = err
             \/ \E e \in Errors : err' = [err EXCEPT ![h] = e]
      BY <2>11, MakeErrorType
    <3>2. err' \in [Handlers -> Errors \cup {None}]
      BY <3>1 DEF TypeOK
    <3>. QED BY <2>11, <3>1, <3>2 DEF TypeOK
  <2>12. ASSUME NEW h \in Handlers, WithDescription(h) \/ WithSolution(h)
         PROVE  TypeOK'
    <3>1. /\ status' \in {status, "stopped"}
          /\ culprit' \in {culprit, [code |-> err[h].code, lang |-> err[h].lang]}
          /\ \/ err' = err
             \/ \E e \in Errors : err' = [err EXCEPT ![h] = e]
      BY <2>12, NewTextType
    <3>2. err[h].code \in Codes /\ err[h].lang \in Langs
      BY <2>12, NewTextType DEF Errors
    <3>3. UNCHANGED <<i18nVars, languages, default, allErrs, header, ask, seen>>
      BY <2>12 DEF WithDescription, WithSolution
    <3>4. err' \in [Handlers -> Errors \cup {None}]
      BY <3>1 DEF TypeOK
    <3>. QED BY <3>1, <3>2, <3>3, <3>4 DEF TypeOK
  <2>13. ASSUME NEW h \in Handlers, NEW c \in Codes, NewHTTPError(h, c) \/ ReplyInternal(h, c)
         PROVE  TypeOK'
    <3>1. ask[h] \in Langs \cup {None} /\ GetBCP47(header[h]) \in Langs
      BY LanguageTypes, RegistryAssumption DEF RegistryAssumption, TypeOK
    <3>2. LanguageByCtx(ask[h]) \in Langs /\ LanguageByCtx(GetBCP47(header[h])) \in Langs
      BY <3>1, LanguageTypes
    <3>. QED BY <2>11, <2>13, <3>2 DEF NewHTTPError, ReplyInternal
  <2>14. CASE UNCHANGED vars
    BY <2>14 DEF vars, TypeOK
  <2>. QED BY <2>1, <2>2, <2>3, <2>4, <2>5, <2>6, <2>7, <2>8, <2>9, <2>10, <2>12, <2>13, <2>14
           DEF Next, StartupStep, HandlerStep
<1>. QED BY <1>1, <1>2, PTL DEF Spec

----------------------------------------------------------------------------
(* Whenever RegisterI18n has returned, all languages have the same         *)
(* messages: a map of the same length that has every message of the first  *)
(* one has no others.                                                      *)
LEMMA SameMessages ==
  ASSUME TypeOK, NEW first \in loaded, AgreesWith(first)
  PROVE  \A l \in loaded : messages[l] = messages[first]
<1>. TAKE l \in loaded
<1>1. messages[l] \in SUBSET Ids /\ messages[first] \in SUBSET Ids
  BY DEF TypeOK
<1>2. IsFiniteSet(messages[l])
  BY <1>1, FS_Subset, RegistryAssumption DEF RegistryAssumption
<1>3. /\ Cardinality(messages[l]) = Cardinality(messages[first])
      /\ messages[first] \in SUBSET messages[l]
  BY DEF AgreesWith
<1>. QED BY <1>2, <1>3, FS_Subset

(* RegisterI18n checks the languages against each other before it returns, *)
(* so they agree for every contents of the directories.                    *)
THEOREM LanguagesAgreeSafe == Spec => []LanguagesAgree
<1>1. Init => LanguagesAgree
  BY DEF Init, LanguagesAgree
<1>2. TypeOK /\ LanguagesAgree /\ [Next]_vars => LanguagesAgree'
  <2>. SUFFICES ASSUME TypeOK, LanguagesAgree, [Next]_vars
                PROVE  LanguagesAgree'
    OBVIOUS
  <2>1. ASSUME UNCHANGED <<loading, loaded, messages>>, status' # "stopped" => status # "stopped"
        PROVE  LanguagesAgree'
    BY <2>1 DEF LanguagesAgree
  <2>2. ASSUME NEW m \in Modules, RegisterI18n(m)
        PROVE  LanguagesAgree'
    <3>1. loading' # NotLoading
      BY <2>2, RegistryAssumption DEF RegistryAssumption, RegisterI18n, NotLoading
    <3>. QED BY <3>1 DEF LanguagesAgree, NotLoading
  <2>3. CASE LoadFile
    <3>1. loading.module # None /\ loading'.module = loading.module
      BY <2>3 DEF LoadFile, FileLeft, TypeOK
    <3>. QED BY <3>1 DEF LanguagesAgree, NotLoading
  <2>4. CASE LoadFileFails
    BY <2>4 DEF LoadFileFails, Stop, LanguagesAgree
  <2>5. CASE CheckLanguageMap
    <3>1. CASE status' = "stopped"
      BY <3>1 DEF LanguagesAgree
    <3>2. CASE loaded = {} \/ \E first \in loaded : AgreesWith(first)
      <4>1. \A k, l \in loaded : messages[k] = messages[l]
        BY <3>2, SameMessages
      <4>. QED BY <2>5, <4>1 DEF CheckLanguageMap, LanguagesAgree
    <3>. QED BY <2>5, <3>1, <3>2 DEF CheckLanguageMap, Stop
  <2>6. CASE \/ Serve \/ \E l \in Langs : AddLanguage(l)
             \/ \E m \in Modules : Register(m)
             \/ \E l \in Langs \cup {None} : SetLang(l)
             \/ UNCHANGED vars
    BY <2>1, <2>6 DEF Serve, AddLanguage, Register, Stop, SetLang, vars, i18nVars
  <2>7. ASSUME NEW h \in Handlers, HandlerStep(h)
        PROVE  LanguagesAgree'
    <3>1. UNCHANGED <<loading, loaded, messages>>
      BY <2>7 DEF HandlerStep, BeginRequest, BeginWithLanguage, NewHTTPError, ReplyInternal,
                  WithDescription, WithSolution, i18nVars
    <3>2. status = "serving"
      BY <2>7 DEF HandlerStep, BeginRequest, BeginWithLanguage, NewHTTPError, ReplyInternal,
                  WithDescription, WithSolution
    <3>. QED BY <2>1, <3>1, <3>2
  <2>. QED BY <2>2, <2>3, <2>4, <2>5, <2>6, <2>7 DEF Next, StartupStep
<1>. QED BY <1>1, <1>2, TypeCorrect, PTL DEF Spec

----------------------------------------------------------------------------
(* A registered code has its texts, in the languages it was registered in. *)
TextsThere ==
  \A c \in Codes \ Public : allErrs[c] # None =>
    \A l \in allErrs[c], p \in Parts : Translates(l, <<c, p>>)

(* An error is of a registered code; a culprit is looked for in a process  *)
(* that has stopped, whose tables do not change any more.                  *)
StartInv ==
  /\ TextsThere
  /\ \A h \in Handlers : err[h] # None => allErrs[err[h].code] # None
  /\ culprit # None => status = "stopped"
  /\ FoundAtStart

(* A request can stop the process only with a code or a language that was  *)
(* not registered, or with a public code.                                  *)
THEOREM FoundAtStartSafe == Spec => []FoundAtStart
<1>1. Init => StartInv
  BY DEF Init, StartInv, TextsThere, FoundAtStart
<1>2. TypeOK /\ StartInv /\ [Next]_vars => StartInv'
  <2>. SUFFICES ASSUME TypeOK, StartInv, [Next]_vars
                PROVE  StartInv'
    OBVIOUS
  <2>1. ASSUME UNCHANGED <<allErrs, culprit, err>>, status = "stopped" => status' = "stopped",
               \A l, id : Translates(l, id) => Translates(l, id)'
        PROVE  StartInv'
    BY <2>1 DEF StartInv, TextsThere, FoundAtStart
  <2>2. CASE LoadFile
    <3>1. /\ File \in Files /\ File.lang \in Langs
      BY <2>2, FileType DEF LoadFile, Files
    <3>2. ASSUME NEW l, NEW id, Translates(l, id)
          PROVE  Translates(l, id)'
      <4>1. /\ messages \in [Langs -> SUBSET Ids] /\ broken \in [Langs -> SUBSET Ids]
            /\ loaded \in SUBSET Langs
        BY DEF TypeOK
      <4>2. /\ loaded' = loaded \cup {File.lang}
            /\ messages' = [messages EXCEPT ![File.lang] = messages[File.lang] \cup File.ids]
            /\ broken' = [broken EXCEPT ![File.lang] = broken[File.lang] \cup (File.broken \cap File.ids)]
            /\ File.ids \cap messages[File.lang] = {}
        BY <2>2 DEF LoadFile
      <4>3. l \in loaded /\ l \in Langs /\ id \in messages[l] /\ id \notin broken[l]
        BY <3>2, <4>1 DEF Translates
      <4>. QED BY <3>1, <4>1, <4>2, <4>3 DEF Translates
    <3>3. UNCHANGED <<allErrs, culprit, err, status>>
      BY <2>2 DEF LoadFile, requestVars
    <3>. QED BY <2>1, <3>2, <3>3
  <2>3. CASE \/ \E m \in Modules : RegisterI18n(m)
             \/ LoadFileFails \/ CheckLanguageMap
             \/ \E l \in Langs : AddLanguage(l)
             \/ Serve \/ \E l \in Langs \cup {None} : SetLang(l)
             \/ UNCHANGED vars
    <3>1. UNCHANGED <<loaded, messages, broken, allErrs, culprit, err>>
      BY <2>3 DEF RegisterI18n, LoadFileFails, CheckLanguageMap, AddLanguage, Serve, SetLang, Stop,
                  vars, i18nVars, requestVars
    <3>2. status = "stopped" => status' = "stopped"
      BY <2>3 DEF RegisterI18n, LoadFileFails, CheckLanguageMap, AddLanguage, Serve, SetLang, Stop, vars
    <3>3. \A l, id : Translates(l, id) => Translates(l, id)'
      BY <3>1 DEF Translates
    <3>. QED BY <2>1, <3>1, <3>2, <3>3
  <2>4. ASSUME NEW m \in Modules, Register(m)
        PROVE  StartInv'
    <3>1. /\ status = "startup" /\ culprit = None
          /\ UNCHANGED <<loaded, messages, broken, culprit, err, languages>>
      BY <2>4 DEF Register, Stop, StartInv, i18nVars, requestVars
    <3>2. \A l, id : Translates(l, id)' = Translates(l, id)
      BY <3>1 DEF Translates
    <3>3. CASE UNCHANGED allErrs
      BY <3>1, <3>2, <3>3 DEF StartInv, TextsThere, FoundAtStart
    <3>4. CASE /\ \A c \in CodesOf[m] :
                    allErrs[c] = None /\ \A l \in languages, p \in Parts : Translates(l, <<c, p>>)
               /\ allErrs' = [c \in Codes |-> IF c \in CodesOf[m] THEN languages ELSE allErrs[c]]
      <4>1. TextsThere'
        BY <3>2, <3>4 DEF StartInv, TextsThere
      <4>2. languages # None
        BY RegistryAssumption DEF RegistryAssumption, TypeOK
      <4>3. \A h \in Handlers : err[h] # None => allErrs'[err[h].code] # None
        <5>1. \A h \in Handlers : err[h] # None => err[h].code \in Codes
          BY DEF TypeOK, Errors
        <5>. QED BY <3>4, <4>2, <5>1 DEF StartInv
      <4>. QED BY <3>1, <4>1, <4>3 DEF StartInv, FoundAtStart
    <3>. QED BY <2>4, <3>3, <3>4 DEF Register
  <2>5. ASSUME NEW h \in Handlers, NEW c \in Codes, NewHTTPError(h, c) \/ ReplyInternal(h, c)
        PROVE  StartInv'
    <3>1. PICK l \in Langs : MakeError(h, c, l)
      <4>1. ask[h] \in Langs \cup {None} /\ GetBCP47(header[h]) \in Langs
        BY LanguageTypes, RegistryAssumption DEF RegistryAssumption, TypeOK
      <4>2. LanguageByCtx(ask[h]) \in Langs /\ LanguageByCtx(GetBCP47(header[h])) \in Langs
        BY <4>1, LanguageTypes
      <4>. QED BY <2>5, <4>2 DEF NewHTTPError, ReplyInternal
    <3>2. status = "serving" /\ UNCHANGED <<loaded, messages, broken, allErrs>>
      BY <2>5 DEF NewHTTPError, ReplyInternal, i18nVars
    <3>3. TextsThere'
      BY <3>2 DEF StartInv, TextsThere, Translates
    <3>4. CASE /\ allErrs[c] = None /\ err' = err /\ status' = "stopped"
               /\ culprit' = [code |-> c, lang |-> l]
      BY <3>2, <3>3, <3>4 DEF StartInv, FoundAtStart
    <3>5. CASE /\ allErrs[c] # None /\ UNCHANGED <<status, culprit>>
               /\ \E e \in Errors : err' = [err EXCEPT ![h] = e] /\ e.code = c
      <4>1. \A g \in Handlers : err'[g] # None => allErrs'[err'[g].code] # None
        BY <3>2, <3>5 DEF StartInv, TypeOK
      <4>. QED BY <3>2, <3>3, <3>5, <4>1 DEF StartInv, FoundAtStart
    <3>. QED BY <3>1, <3>4, <3>5, MakeErrorType
  <2>6. ASSUME NEW h \in Handlers, WithDescription(h) \/ WithSolution(h)
        PROVE  StartInv'
    <3>1. /\ status = "serving" /\ UNCHANGED <<loaded, messages, broken, allErrs>>
          /\ err[h] # None
      BY <2>6 DEF WithDescription, WithSolution, i18nVars
    <3>2. TextsThere'
      BY <3>1 DEF StartInv, TextsThere, Translates
    <3>3. err[h] \in Errors /\ err[h].code \in Codes
      BY <2>6, NewTextType DEF Errors
    <3>4. CASE /\ UNCHANGED <<status, culprit>>
               /\ \E e \in Errors : err' = [err EXCEPT ![h] = e] /\ e.code = err[h].code
      <4>1. \A g \in Handlers : err'[g] # None => allErrs'[err'[g].code] # None
        BY <3>1, <3>4 DEF StartInv, TypeOK
      <4>. QED BY <3>1, <3>2, <3>4, <4>1 DEF StartInv, FoundAtStart
    <3>5. CASE /\ err' = err /\ status' = "stopped"
               /\ culprit' = [code |-> err[h].code, lang |-> err[h].lang]
               /\ \E p \in Parts : ~Translates(err[h].lang, <<err[h].code, p>>)
      <4>1. err[h].code \in Public \/ err[h].lang \notin allErrs[err[h].code]
        BY <3>1, <3>3, <3>5 DEF StartInv, TextsThere
      <4>2. FoundAtStart'
        BY <3>1, <3>5, <4>1 DEF FoundAtStart
      <4>. QED BY <3>1, <3>2, <3>5, <4>2 DEF StartInv
    <3>. QED BY <2>6, <3>4, <3>5, NewTextType
  <2>7. ASSUME NEW h \in Handlers, NEW l \in Langs \cup {None}, NEW own \in BOOLEAN,
               BeginRequest(h, l, own) \/ (l \in Langs /\ BeginWithLanguage(h, l))
        PROVE  StartInv'
    <3>1. /\ UNCHANGED <<status, culprit, loaded, messages, broken, allErrs>>
          /\ err' = [err EXCEPT ![h] = None]
      BY <2>7 DEF BeginRequest, BeginWithLanguage, i18nVars
    <3>2. TextsThere'
      BY <3>1 DEF StartInv, TextsThere, Translates
    <3>3. \A g \in Handlers : err'[g] # None => allErrs'[err'[g].code] # None
      BY <3>1 DEF StartInv, TypeOK
    <3>. QED BY <3>1, <3>2, <3>3 DEF StartInv, FoundAtStart
  <2>. QED BY <2>2, <2>3, <2>4, <2>5, <2>6, <2>7 DEF Next, StartupStep, HandlerStep
<1>3. StartInv => FoundAtStart
  BY DEF StartInv
<1>. QED BY <1>1, <1>2, <1>3, TypeCorrect, PTL DEF Spec

----------------------------------------------------------------------------
(* A handler that has begun a request has seen the default language; its   *)
(* context has the language of its header, if that is a built-in one.      *)
AnswerInv ==
  /\ Builtin \subseteq languages
  /\ \A h \in Handlers :
       /\ seen[h] # {} => default \in seen[h]
       /\ header[h] \in Builtin /\ ask[h] # None => ask[h] = header[h]
       /\ err[h] # None => seen[h] # {}
  /\ AnswerLanguage

(* A request keeps what it began with: the languages only grow.            *)
LEMMA AnswerFrame ==
  ASSUME TypeOK, AnswerInv, UNCHANGED <<header, ask, err>>, languages \subseteq languages',
         \A h \in Handlers : /\ seen[h] \subseteq seen'[h]
                             /\ seen'[h] # {} => default' \in seen'[h]
  PROVE  AnswerInv'
<1>1. \A h \in Handlers : err[h] # None =>
        err[h].lang \in ({ask[h], header[h]} \cap languages') \cup seen'[h]
  BY DEF AnswerInv, AnswerLanguage
<1>. QED BY <1>1 DEF AnswerInv, AnswerLanguage

(* The language of an answer is that of the request, or a default language *)
(* of its time, and its texts are all in that language.                    *)
THEOREM AnswerLanguageSafe == Spec => []AnswerLanguage
<1>1. Init => AnswerInv
  BY DEF Init, AnswerInv, AnswerLanguage
<1>2. TypeOK /\ AnswerInv /\ [Next]_vars => AnswerInv'
  <2>. SUFFICES ASSUME TypeOK, AnswerInv, [Next]_vars
                PROVE  AnswerInv'
    OBVIOUS
  <2>1. CASE \/ \E m \in Modules : RegisterI18n(m) \/ Register(m)
             \/ LoadFile \/ LoadFileFails \/ CheckLanguageMap
             \/ \E l \in Langs : AddLanguage(l)
             \/ Serve \/ UNCHANGED vars
    <3>1. UNCHANGED <<header, ask, err, seen, default>> /\ languages \subseteq languages'
      BY <2>1 DEF RegisterI18n, Register, LoadFile, LoadFileFails, CheckLanguageMap, AddLanguage,
                  Serve, vars, requestVars
    <3>. QED BY <3>1, AnswerFrame DEF AnswerInv
  <2>2. ASSUME NEW l \in Langs \cup {None}, SetLang(l)
        PROVE  AnswerInv'
    <3>1. /\ UNCHANGED <<header, ask, err, languages>>
          /\ \A h \in Handlers : seen'[h] = seen[h] \cup {default'}
      BY <2>2 DEF SetLang
    <3>. QED BY <3>1, AnswerFrame
  <2>3. ASSUME NEW h \in Handlers, NEW l \in Langs \cup {None}, NEW own \in BOOLEAN,
               BeginRequest(h, l, own) \/ (l \in Langs /\ BeginWithLanguage(h, l))
        PROVE  AnswerInv'
    <3>1. /\ UNCHANGED <<languages, default>> /\ err' = [err EXCEPT ![h] = None]
          /\ seen' = [seen EXCEPT ![h] = {default}]
          /\ \A g \in Handlers \ {h} : header'[g] = header[g] /\ ask'[g] = ask[g]
          /\ \/ header'[h] = None
             \/ header'[h] = l /\ ask'[h] \in {None, GetBCP47(l)}
      BY <2>3 DEF BeginRequest, BeginWithLanguage, TypeOK
    <3>2. header'[h] \in Builtin /\ ask'[h] # None => ask'[h] = header'[h]
      BY <3>1, RegistryAssumption DEF RegistryAssumption, GetBCP47
    <3>3. /\ seen'[h] = {default} /\ err'[h] = None
          /\ \A g \in Handlers \ {h} : seen'[g] = seen[g] /\ err'[g] = err[g]
      BY <3>1 DEF TypeOK
    <3>. QED BY <3>1, <3>2, <3>3 DEF AnswerInv, AnswerLanguage
  <2>4. ASSUME NEW h \in Handlers, NEW e \in Errors, err' = [err EXCEPT ![h] = e],
               UNCHANGED <<languages, default, header, ask, seen>>,
               seen[h] # {},
               e.desc \in {e.lang, None}, e.sol \in {e.lang, None},
               e.lang \in ({ask[h], header[h]} \cap languages) \cup seen[h],
               header[h] \in Builtin /\ ask[h] # None => e.lang = header[h]
        PROVE  AnswerInv'
    <3>1. err'[h] = e /\ \A g \in Handlers \ {h} : err'[g] = err[g]
      BY <2>4 DEF TypeOK
    <3>. QED BY <2>4, <3>1 DEF AnswerInv, AnswerLanguage
  <2>5. ASSUME NEW h \in Handlers, NEW c \in Codes, NewHTTPError(h, c) \/ ReplyInternal(h, c)
        PROVE  AnswerInv'
    <3>0. /\ UNCHANGED <<languages, default, header, ask, seen>> /\ seen[h] # {}
          /\ default \in seen[h] /\ Builtin \subseteq languages
      BY <2>5 DEF NewHTTPError, ReplyInternal, AnswerInv
    <3>1. PICK l \in Langs : /\ MakeError(h, c, l)
                             /\ l \in ({ask[h], header[h]} \cap languages) \cup seen[h]
                             /\ header[h] \in Builtin /\ ask[h] # None => l = header[h]
      <4>1. /\ ask[h] \in Langs \cup {None} /\ header[h] \in Langs \cup {None}
            /\ GetBCP47(header[h]) \in Langs /\ GetBCP47(header[h]) \in Builtin
        BY LanguageTypes, RegistryAssumption DEF RegistryAssumption, TypeOK
      <4>2. CASE NewHTTPError(h, c)
        <5>. DEFINE l == LanguageByCtx(ask[h])
        <5>1. l \in Langs /\ (l \in {ask[h]} \cap languages \/ l = default)
          BY <4>1, LanguageTypes
        <5>2. header[h] \in Builtin /\ ask[h] # None => l = header[h]
          BY <3>0, <4>1, LanguageTypes DEF AnswerInv
        <5>3. MakeError(h, c, l)
          BY <4>2 DEF NewHTTPError
        <5>. HIDE DEF l
        <5>. QED BY <3>0, <5>1, <5>2, <5>3
      <4>3. CASE ReplyInternal(h, c)
        <5>. DEFINE l == LanguageByCtx(GetBCP47(header[h]))
        <5>1. l \in Langs /\ l = GetBCP47(header[h])
          BY <3>0, <4>1, LanguageTypes
        <5>2. \/ l = header[h] /\ l \in Builtin
              \/ l = default /\ header[h] \notin Builtin
          <6>1. \/ GetBCP47(header[h]) = header[h] /\ header[h] \in Builtin
                \/ GetBCP47(header[h]) = default /\ header[h] \notin Builtin
            BY DEF GetBCP47
          <6>. QED BY <5>1, <6>1
        <5>3. MakeError(h, c, l)
          BY <4>3 DEF ReplyInternal
        <5>4. /\ l \in ({ask[h], header[h]} \cap languages) \cup seen[h]
              /\ header[h] \in Builtin => l = header[h]
          BY <3>0, <5>2
        <5>. HIDE DEF l
        <5>. QED BY <5>1, <5>3, <5>4
      <4>. QED BY <2>5, <4>2, <4>3
    <3>2. CASE err' = err
      BY <3>0, <3>2, AnswerFrame DEF AnswerInv
    <3>3. CASE \E e \in Errors : /\ err' = [err EXCEPT ![h] = e] /\ e.lang = l
                                 /\ e.desc \in {l, None} /\ e.sol \in {l, None}
      BY <2>4, <3>0, <3>1, <3>3
    <3>. QED BY <3>1, <3>2, <3>3, MakeErrorType
  <2>6. ASSUME NEW h \in Handlers, WithDescription(h) \/ WithSolution(h)
        PROVE  AnswerInv'
    <3>0. UNCHANGED <<languages, default, header, ask, seen>> /\ err[h] # None
      BY <2>6 DEF WithDescription, WithSolution
    <3>1. CASE err' = err
      BY <3>0, <3>1, AnswerFrame DEF AnswerInv
    <3>2. CASE \E e \in Errors : /\ err' = [err EXCEPT ![h] = e] /\ e.lang = err[h].lang
                                 /\ e.desc \in {e.lang, err[h].desc}
                                 /\ e.sol \in {e.lang, err[h].sol}
      <4>1. /\ seen[h] # {}
            /\ {err[h].desc, err[h].sol} \subseteq {err[h].lang, None}
            /\ err[h].lang \in ({ask[h], header[h]} \cap languages) \cup seen[h]
            /\ header[h] \in Builtin /\ ask[h] # None => err[h].lang = header[h]
        BY <3>0 DEF AnswerInv, AnswerLanguage
      <4>. QED BY <2>4, <3>0, <3>2, <4>1
    <3>. QED BY <2>6, <3>1, <3>2, NewTextType
  <2>. QED BY <2>1, <2>2, <2>3, <2>5, <2>6 DEF Next, StartupStep, HandlerStep
<1>3. AnswerInv => AnswerLanguage
  BY DEF AnswerInv
<1>. QED BY <1>1, <1>2, <1>3, TypeCorrect, PTL DEF Spec
==============================================================================
