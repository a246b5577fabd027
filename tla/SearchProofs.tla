---------------------------- MODULE SearchProofs ----------------------------
(***************************************************************************)
(* Proofs about NameSearch.  Requests and answers stay in order, so of all *)
(* that is under way the last query, or the last answer, or else the list  *)
(* itself is for the text in the line: that is what SearchInv says, and    *)
(* each step of window and server hands it on.                             *)
(***************************************************************************)
EXTENDS NameSearch, SequenceTheorems, TLAPS

IsQuery(i) == requests[i].kind = "ClientsByName"

\* Request i is the last query under way.
IsLastQuery(i) ==
    IsQuery(i) /\ \A j \in DOMAIN requests : j > i => ~IsQuery(j)

\* What is still to come for the list, in the order of coming.
UnderWay ==
    visible /\ typed /\ up =>
        /\ \A i \in DOMAIN requests : IsLastQuery(i) => requests[i].text = text
        /\ (\A i \in DOMAIN requests : ~IsQuery(i)) =>
             IF answers = <<>> THEN ListIsFor(text)
             ELSE answers[Len(answers)] = GetClientsRegexp(text)

\* A text that has been typed is gone once the window is hidden.
HiddenIsUntyped == ~visible => ~typed

SearchInv ==
    /\ SearchTypeOK /\ HiddenIsUntyped /\ UnderWay
    /\ AskedWereChosen

-----------------------------------------------------------------------------
\* What a request can be, by its kind.
LEMMA RequestKinds ==
    ASSUME NEW r \in Requests
    PROVE  /\ r.kind = "ClientsByName" => r.text \in Texts
           /\ r.kind = "CreateChat" => r.names \in SUBSET Names
BY DEF Requests

LEMMA Parts ==
    ASSUME SearchTypeOK
    PROVE  /\ requests \in Seq(Requests) /\ answers \in Seq(SUBSET Names) /\ chosen \in Seq(Names)
           /\ DOMAIN requests = 1 .. Len(requests) /\ Len(requests) \in Nat
           /\ DOMAIN answers = 1 .. Len(answers) /\ Len(answers) \in Nat
           /\ DOMAIN chosen = 1 .. Len(chosen) /\ Len(chosen) \in Nat
BY LenProperties DEF SearchTypeOK

\* The server's answers are sets of names, that of no text at all is empty.
LEMMA AnswersAreNames ==
    ASSUME NEW t \in Texts
    PROVE  GetClientsRegexp(t) \in SUBSET Names
BY SearchAssumption DEF GetClientsRegexp

LEMMA ChosenAfterUnchoose ==
    ASSUME SearchTypeOK, NEW i \in DOMAIN chosen
    PROVE  RemoveAt(chosen, i) \in Seq(Names)
<1>1. chosen \in Seq(Names) /\ i \in 1 .. Len(chosen) /\ Len(chosen) \in Nat
    BY Parts
<1>2. \A m, n \in Int : 1 <= m /\ n <= Len(chosen) => SubSeq(chosen, m, n) \in Seq(Names)
    <2> SUFFICES ASSUME NEW m \in Int, NEW n \in Int, 1 <= m, n <= Len(chosen)
                 PROVE  SubSeq(chosen, m, n) \in Seq(Names)
        OBVIOUS
    <2>1. \A j \in m .. n : chosen[j] \in Names
        <3> SUFFICES ASSUME NEW j \in m .. n PROVE chosen[j] \in Names
            OBVIOUS
        <3>1. j \in 1 .. Len(chosen)
            BY <1>1
        <3> QED
            BY <1>1, <3>1, ElementOfSeq
    <2> QED
        BY <2>1, SubSeqProperties
<1>3. /\ SubSeq(chosen, 1, i - 1) \in Seq(Names)
      /\ SubSeq(chosen, i + 1, Len(chosen)) \in Seq(Names)
    BY <1>1, <1>2
<1> QED
    BY <1>3, ConcatProperties DEF RemoveAt

-----------------------------------------------------------------------------
\* The variables keep their types.
LEMMA SearchTyped ==
    ASSUME SearchTypeOK, [Next]_vars
    PROVE  SearchTypeOK'
<1> USE SearchAssumption DEF listVars, countVars
<1>1. CASE Show
    BY <1>1 DEF Show, SearchTypeOK
<1>2. CASE Hide
    BY <1>2 DEF Hide, HideEvent, SearchTypeOK
<1>3. CASE Confirm
    <2>1. ToSet(chosen) \in SUBSET Names
        BY Parts, ElementOfSeq DEF ToSet
    <2>2. [kind |-> "CreateChat", names |-> ToSet(chosen)] \in Requests
        BY <2>1 DEF Requests
    <2>3. requests' \in Seq(Requests)
        BY <1>3, <2>2, Parts, AppendProperties DEF Confirm
    <2>4. /\ visible' = FALSE /\ typed' = FALSE /\ text' = Empty
          /\ UNCHANGED <<found, listShown, chosen, answers, up, asked, changes>>
          /\ confirms < MaxConfirms /\ confirms' = confirms + 1
        BY <1>3 DEF Confirm, HideEvent
    <2>5. {visible', listShown', up', typed'} \subseteq BOOLEAN
        BY <2>4 DEF SearchTypeOK
    <2>6. text' \in Texts /\ changes' \in 0 .. MaxTyped /\ confirms' \in 0 .. MaxConfirms
        BY <2>4 DEF SearchTypeOK
    <2> QED
        BY <2>3, <2>4, <2>5, <2>6 DEF SearchTypeOK
<1>4. ASSUME NEW t \in Texts, Type(t) PROVE SearchTypeOK'
    <2>1. [kind |-> "ClientsByName", text |-> t] \in Requests
        BY DEF Requests
    <2>2. requests' \in Seq(Requests)
        BY <1>4, <2>1, Parts, AppendProperties DEF Type
    <2> QED
        BY <1>4, <2>2 DEF Type, SearchTypeOK
<1>5. ASSUME NEW n \in Names, Choose(n) PROVE SearchTypeOK'
    <2>1. chosen' \in Seq(Names)
        BY <1>5, Parts, AppendProperties DEF Choose
    <2> QED
        BY <1>5, <2>1 DEF Choose, SearchTypeOK
<1>6. ASSUME NEW i \in DOMAIN chosen, Unchoose(i) PROVE SearchTypeOK'
    <2>1. chosen' \in Seq(Names)
        BY <1>6, ChosenAfterUnchoose DEF Unchoose
    <2> QED
        BY <1>6, <2>1 DEF Unchoose, SearchTypeOK
<1>7. CASE ReceiveClientsByName
    <2>1. Head(answers) \in SUBSET Names /\ Tail(answers) \in Seq(SUBSET Names)
        BY <1>7, Parts, HeadTailProperties DEF ReceiveClientsByName
    <2>2. found' \subseteq Names /\ listShown' \in BOOLEAN
        BY <1>7, <2>1 DEF ReceiveClientsByName, Fill, SearchTypeOK
    <2> QED
        BY <1>7, <2>1, <2>2 DEF ReceiveClientsByName, SearchTypeOK
<1>8. CASE HandleGetClientsByName
    <2>1. Head(requests) \in Requests /\ Tail(requests) \in Seq(Requests)
        BY <1>8, Parts, HeadTailProperties DEF HandleGetClientsByName
    <2>2. Head(requests).text \in Texts
        BY <1>8, <2>1, RequestKinds DEF HandleGetClientsByName
    <2>3. Append(answers, GetClientsRegexp(Head(requests).text)) \in Seq(SUBSET Names)
        BY <2>2, AnswersAreNames, Parts, AppendProperties
    <2>4. answers' \in Seq(SUBSET Names) /\ up' \in BOOLEAN
        BY <1>8, <2>3 DEF HandleGetClientsByName, SearchTypeOK
    <2> QED
        BY <1>8, <2>1, <2>4 DEF HandleGetClientsByName, SearchTypeOK
<1>9. CASE AskChosen
    <2>1. Head(requests) \in Requests /\ Tail(requests) \in Seq(Requests)
        BY <1>9, Parts, HeadTailProperties DEF AskChosen
    <2>2. Head(requests).names \in SUBSET Names
        BY <1>9, <2>1, RequestKinds DEF AskChosen
    <2>3. asked' \subseteq [chosen : SUBSET Names, users : SUBSET Names]
        BY <1>9, <2>2 DEF AskChosen, SearchTypeOK
    <2> QED
        BY <1>9, <2>1, <2>3 DEF AskChosen, SearchTypeOK
<1>10. CASE UNCHANGED vars
    BY <1>10 DEF vars, SearchTypeOK
<1> QED
    BY <1>1, <1>2, <1>3, <1>4, <1>5, <1>6, <1>7, <1>8, <1>9, <1>10 DEF Next, ServerStep, UserStep

\* A text stays typed only in a window that is shown.
LEMMA HiddenStep ==
    ASSUME HiddenIsUntyped, [Next]_vars
    PROVE  HiddenIsUntyped'
<1>1. CASE visible' = FALSE /\ typed' = FALSE
    BY <1>1 DEF HiddenIsUntyped
<1>2. CASE visible' = TRUE
    BY <1>2 DEF HiddenIsUntyped
<1>3. CASE UNCHANGED <<visible, typed>>
    BY <1>3 DEF HiddenIsUntyped
<1>4. CASE visible /\ UNCHANGED visible
    BY <1>4 DEF HiddenIsUntyped
<1>5. Hide \/ Confirm => visible' = FALSE /\ typed' = FALSE
    BY DEF Hide, Confirm, HideEvent
<1>6. Show => visible' = TRUE
    BY DEF Show
<1>7. \A t \in Texts : Type(t) => visible /\ UNCHANGED visible
    BY DEF Type
<1>8. ServerStep \/ ReceiveClientsByName \/ UNCHANGED vars => UNCHANGED <<visible, typed>>
    BY DEF ServerStep, HandleGetClientsByName, AskChosen, ReceiveClientsByName, vars
<1>9. /\ \A n \in Names : Choose(n) => UNCHANGED <<visible, typed>>
      /\ \A i \in DOMAIN chosen : Unchoose(i) => UNCHANGED <<visible, typed>>
    BY DEF Choose, Unchoose
<1> QED
    BY <1>1, <1>2, <1>3, <1>4, <1>5, <1>6, <1>7, <1>8, <1>9 DEF Next, UserStep

\* A name without a space is parsed as itself.
LEMMA WordIsParsed ==
    ASSUME NEW names, NEW n \in names, n # Self, Words[n] = {n}
    PROVE  n \in ParseClients(names)
<1>1. n \in UNION {Words[m] : m \in names}
    OBVIOUS
<1> QED
    BY <1>1 DEF ParseClients

\* Only AskChosen asks users, those of the names it has got.
LEMMA AskedStep ==
    ASSUME SearchTypeOK, AskedWereChosen, [Next]_vars
    PROVE  AskedWereChosen'
<1>1. CASE AskChosen
    <2> DEFINE names == Head(requests).names
               new   == [chosen |-> names, users |-> ParseClients(names) \cap Names]
    <2>1. Head(requests) \in Requests
        BY <1>1, Parts, HeadTailProperties DEF AskChosen
    <2>2. names \in SUBSET Names
        BY <1>1, <2>1, RequestKinds DEF AskChosen
    <2>3. asked' = asked \cup {new}
        BY <1>1 DEF AskChosen
    <2>4. \A n \in new.chosen \ {Self} : Words[n] = {n} => n \in new.users
        <3> SUFFICES ASSUME NEW n \in names \ {Self}, Words[n] = {n}
                     PROVE  n \in ParseClients(names) /\ n \in Names
            OBVIOUS
        <3>1. n \in Names /\ n # Self
            BY <2>2
        <3> QED
            BY <3>1, WordIsParsed
    <2>5. \A u \in new.users : \E n \in new.chosen : u \in Words[n]
        BY DEF ParseClients
    <2> HIDE DEF new
    <2> QED
        BY <2>3, <2>4, <2>5 DEF AskedWereChosen
<1>2. CASE UNCHANGED asked
    BY <1>2 DEF AskedWereChosen
<1> QED
    BY <1>1, <1>2 DEF Next, ServerStep, UserStep, Show, Hide, HideEvent, Confirm, Type, Choose,
        Unchoose, ReceiveClientsByName, HandleGetClientsByName, vars

-----------------------------------------------------------------------------
(***************************************************************************)
(* What is under way.                                                      *)
(***************************************************************************)
\* A new text is asked for behind everything else.
LEMMA TypeUnderWay ==
    ASSUME SearchTypeOK, NEW t \in Texts, Type(t)
    PROVE  UnderWay'
<1> DEFINE new == [kind |-> "ClientsByName", text |-> t]
<1> PICK n \in Nat : n = Len(requests)
    BY Parts
<1>1. new \in Requests
    BY DEF Requests
<1>2. /\ requests' = Append(requests, new) /\ text' = t
      /\ requests' \in Seq(Requests) /\ Len(requests') = n + 1
      /\ requests'[n + 1] = new
    BY <1>1, Parts, AppendProperties DEF Type
<1>3. n \in Nat /\ DOMAIN requests' = 1 .. n + 1
    BY <1>2, Parts, LenProperties
<1>4. new.kind = "ClientsByName" /\ new.text = t
    OBVIOUS
<1> HIDE DEF new
<1>5. ASSUME NEW i \in DOMAIN requests', IsLastQuery(i)'
      PROVE  requests'[i].text = text'
    <2>1. n + 1 \in DOMAIN requests' /\ IsQuery(n + 1)'
        BY <1>2, <1>3, <1>4 DEF IsQuery
    <2>2. ~(n + 1 > i)
        BY <1>5, <2>1 DEF IsLastQuery
    <2>3. i = n + 1
        BY <1>3, <2>2
    <2> QED
        BY <1>2, <1>4, <2>3
<1>6. \E i \in DOMAIN requests' : IsQuery(i)'
    BY <1>2, <1>3, <1>4 DEF IsQuery
<1> QED
    BY <1>5, <1>6 DEF UnderWay

\* The server takes the first request, and answers it behind all other answers.
LEMMA ServedUnderWay ==
    ASSUME SearchTypeOK, UnderWay, HandleGetClientsByName \/ AskChosen
    PROVE  UnderWay'
<1> SUFFICES ASSUME visible', typed', up'
             PROVE  UnderWay'
    BY DEF UnderWay
<1> DEFINE n == Len(requests)
<1>1. /\ requests # <<>> /\ requests' = Tail(requests)
      /\ UNCHANGED <<visible, text, typed, found, listShown>>
    BY DEF HandleGetClientsByName, AskChosen, listVars
<1>2. /\ n \in Nat /\ DOMAIN requests = 1 .. n
      /\ DOMAIN requests' = 1 .. n - 1
      /\ \A i \in 1 .. n - 1 : requests'[i] = requests[i + 1]
      /\ Head(requests) = requests[1] /\ n > 0
    BY <1>1, Parts, EmptySeq, HeadTailProperties, LenProperties
<1>3. visible /\ typed /\ up
    BY <1>1 DEF HandleGetClientsByName, AskChosen
<1> HIDE DEF n
<1>4. ASSUME NEW i \in DOMAIN requests', IsLastQuery(i)'
      PROVE  requests'[i].text = text'
    <2>1. i + 1 \in DOMAIN requests /\ requests'[i] = requests[i + 1]
        BY <1>2
    <2>2. IsQuery(i + 1)
        BY <1>4, <2>1 DEF IsLastQuery, IsQuery
    <2>3. ASSUME NEW j \in DOMAIN requests, j > i + 1 PROVE ~IsQuery(j)
        <3>1. j - 1 \in DOMAIN requests' /\ j - 1 > i /\ requests'[j - 1] = requests[j]
            BY <1>2, <2>3
        <3> QED
            BY <1>4, <3>1 DEF IsLastQuery, IsQuery
    <2> QED
        BY <1>1, <1>3, <2>1, <2>2, <2>3 DEF UnderWay, IsLastQuery
<1>5. ASSUME \A i \in DOMAIN requests' : ~IsQuery(i)'
      PROVE  IF answers' = <<>> THEN ListIsFor(text)'
             ELSE answers'[Len(answers')] = GetClientsRegexp(text')
    <2>1. ASSUME NEW j \in DOMAIN requests, j > 1 PROVE ~IsQuery(j)
        <3>1. j - 1 \in DOMAIN requests' /\ requests'[j - 1] = requests[j]
            BY <1>2, <2>1
        <3> QED
            BY <1>5, <3>1 DEF IsQuery
    <2>2. CASE HandleGetClientsByName
        <3>1. 1 \in DOMAIN requests /\ IsLastQuery(1)
            BY <1>2, <2>1, <2>2 DEF HandleGetClientsByName, IsLastQuery, IsQuery
        <3>2. Head(requests).text = text
            BY <1>2, <1>3, <3>1 DEF UnderWay
        <3>3. answers' = Append(answers, GetClientsRegexp(text))
            BY <2>2, <3>2 DEF HandleGetClientsByName
        <3>4. GetClientsRegexp(text) \in SUBSET Names
            BY AnswersAreNames DEF SearchTypeOK
        <3>5. answers' # <<>> /\ answers'[Len(answers')] = GetClientsRegexp(text)
            <4> DEFINE r == GetClientsRegexp(text)
            <4>1. r \in SUBSET Names /\ answers \in Seq(SUBSET Names) /\ answers' = Append(answers, r)
                BY <3>3, <3>4, Parts
            <4> HIDE DEF r
            <4>2. answers' # <<>> /\ answers'[Len(answers')] = r
                BY <4>1, AppendProperties
            <4> QED
                BY <4>2 DEF r
        <3> QED
            BY <1>1, <3>5
    <2>3. CASE AskChosen
        <3>1. ~IsQuery(1) /\ UNCHANGED answers
            BY <1>2, <2>3 DEF AskChosen, IsQuery
        <3>2. \A j \in DOMAIN requests : ~IsQuery(j)
            BY <1>2, <2>1, <3>1
        <3>3. IF answers = <<>> THEN ListIsFor(text)
              ELSE answers[Len(answers)] = GetClientsRegexp(text)
            BY <1>3, <3>2 DEF UnderWay
        <3> QED
            BY <1>1, <3>1, <3>3 DEF ListIsFor
    <2> QED
        BY <2>2, <2>3
<1> QED
    BY <1>4, <1>5 DEF UnderWay

\* The window shows the first answer; the last one is what the list stays with.
LEMMA AnsweredUnderWay ==
    ASSUME SearchTypeOK, UnderWay, ReceiveClientsByName
    PROVE  UnderWay'
<1> SUFFICES ASSUME visible', typed', up'
             PROVE  UnderWay'
    BY DEF UnderWay
<1> DEFINE n == Len(answers)
<1>1. /\ answers # <<>> /\ answers' = Tail(answers)
      /\ UNCHANGED <<visible, text, requests, up, typed>>
    BY DEF ReceiveClientsByName
<1>2. /\ n \in Nat \ {0} /\ Len(answers') = n - 1
      /\ answers' \in Seq(SUBSET Names)
      /\ \A i \in 1 .. n - 1 : answers'[i] = answers[i + 1]
      /\ Head(answers) = answers[1]
    BY <1>1, Parts, EmptySeq, HeadTailProperties
<1>3. answers' # <<>> => n - 1 \in Nat \ {0}
    BY <1>2, EmptySeq
<1>4. answers' = <<>> => n = 1
    BY <1>2, EmptySeq
<1> HIDE DEF n
<1>5. ASSUME \A i \in DOMAIN requests : ~IsQuery(i)
      PROVE  IF answers' = <<>> THEN ListIsFor(text)'
             ELSE answers'[Len(answers')] = GetClientsRegexp(text')
    <2>1. answers[n] = GetClientsRegexp(text)
        BY <1>1, <1>5 DEF UnderWay, n
    <2>2. CASE answers' = <<>>
        <3>1. Head(answers) = GetClientsRegexp(text)
            BY <1>2, <1>4, <2>1, <2>2
        <3>2. ListIsFor(text)'
            BY <1>1, <3>1 DEF ReceiveClientsByName, Fill, ListIsFor
        <3> QED
            BY <2>2, <3>2
    <2>3. CASE answers' # <<>>
        <3>1. answers'[n - 1] = answers[n]
            BY <1>2, <1>3, <2>3
        <3> QED
            BY <1>1, <1>2, <2>1, <2>3, <3>1
    <2> QED
        BY <2>2, <2>3
<1> QED
    BY <1>1, <1>5 DEF UnderWay, IsLastQuery, IsQuery

LEMMA UnderWayStep ==
    ASSUME SearchTypeOK, HiddenIsUntyped, UnderWay, [Next]_vars
    PROVE  UnderWay'
<1>1. ASSUME NEW t \in Texts, Type(t) PROVE UnderWay'
    BY <1>1, TypeUnderWay
<1>2. CASE ServerStep
    BY <1>2, ServedUnderWay DEF ServerStep
<1>3. CASE ReceiveClientsByName
    BY <1>3, AnsweredUnderWay
<1>4. CASE Show \/ Hide \/ Confirm
    BY <1>4 DEF Show, Hide, Confirm, HideEvent, HiddenIsUntyped, UnderWay
<1>5. CASE UNCHANGED <<visible, text, found, listShown, requests, answers, up, typed>>
    BY <1>5 DEF UnderWay, IsLastQuery, IsQuery, ListIsFor
<1> QED
    BY <1>1, <1>2, <1>3, <1>4, <1>5 DEF Next, UserStep, Choose, Unchoose, vars, listVars

-----------------------------------------------------------------------------
LEMMA SearchInvariant == Spec => []SearchInv
<1>1. Init => SearchInv
    <2> SUFFICES ASSUME Init PROVE SearchInv
        OBVIOUS
    <2> USE SearchAssumption DEF Init
    <2>1. chosen \in Seq(Names) /\ requests \in Seq(Requests) /\ answers \in Seq(SUBSET Names)
        BY EmptySeq
    <2>2. SearchTypeOK
        <3>1. visible \in BOOLEAN /\ listShown \in BOOLEAN /\ up \in BOOLEAN /\ typed \in BOOLEAN
            OBVIOUS
        <3>2. text \in Texts /\ changes \in 0 .. MaxTyped /\ confirms \in 0 .. MaxConfirms
            OBVIOUS
        <3>3. found \subseteq Names /\ asked \subseteq [chosen : SUBSET Names, users : SUBSET Names]
            OBVIOUS
        <3> QED
            BY <2>1, <3>1, <3>2, <3>3 DEF SearchTypeOK
    <2> QED
        BY <2>2 DEF SearchInv, HiddenIsUntyped, UnderWay, AskedWereChosen
<1>2. SearchInv /\ [Next]_vars => SearchInv'
    BY SearchTyped, HiddenStep, UnderWayStep, AskedStep DEF SearchInv
<1> QED
    BY <1>1, <1>2, PTL DEF Spec

\* The variables of window, wire and server keep their types.
THEOREM SearchTypeCorrect == Spec => []SearchTypeOK
<1>1. SearchInv => SearchTypeOK
    BY DEF SearchInv
<1> QED
    BY <1>1, SearchInvariant, PTL

\* For all names and texts, and however fast the user types, deletes, hides and shows the
\* window: the list ends up with the answer to the text in the line (ConnectSignalsCreateChat,
\* HandleGetClientsByName).
THEOREM ListAnswersTheText == Spec => []ListAnswersText
<1>1. SearchInv => ListAnswersText
    BY DEF SearchInv, UnderWay, ListAnswersText
<1> QED
    BY <1>1, SearchInvariant, PTL

\* Whatever names contain each other or spaces: of the chosen names those without a space are
\* asked, and everybody asked is a part of a chosen name (ParseClients, AskClients).
THEOREM AskedAreParts == Spec => []AskedWereChosen
<1>1. SearchInv => AskedWereChosen
    BY DEF SearchInv
<1> QED
    BY <1>1, SearchInvariant, PTL
=============================================================================
