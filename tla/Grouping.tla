---- MODULE Grouping ----
(***************************************************************************)
(* internal/grouping and the grouping half of ExtractEvent: from an event  *)
(* to the fingerprint of its issue.  Names and texts are strings, and what *)
(* the normalizers and the glob matcher make of them is given; the hash of *)
(* parts is the sequence of the parts, which takes it to be injective.     *)
(***************************************************************************)
EXTENDS Integers, SequencesExt

CONSTANTS
    MaxFrames,     \* maxFrames
    NormalSymbol, NormalMessage, NormalPath, \* what the normalizers return
    LibraryPath, LibraryModule, \* what contains a library marker, what has a library prefix
    GlobMatch      \* the pairs of a pattern and a text that it matches

\* isDefaultToken, in either spelling.
Default == "{{ default }}"

----------------------------------------------------------------------------
(* Frames.                                                                   *)

FirstNonEmpty(a, b) == IF a # "" THEN a ELSE b

\* The SDK's hint wins, then the path, then the module and the function.
IsInApp(f) ==
    IF f.in_app # {} THEN TRUE \in f.in_app
    ELSE /\ FirstNonEmpty(f.abs_path, f.filename) \notin LibraryPath
         /\ {f.module, f.function} \cap LibraryModule = {}

\* Where IsInApp prefers the absolute path, this prefers the file name.
NormalizeModule(f) ==
    LET name == FirstNonEmpty(f.filename, f.abs_path)
    IN  IF f.module # "" THEN NormalSymbol[f.module]
        ELSE IF name = "" THEN "<unknown>" ELSE NormalPath[name]

Innermost(frames) ==
    SubSeq(frames, IF Len(frames) > MaxFrames THEN Len(frames) - MaxFrames + 1 ELSE 1, Len(frames))

\* Mutant: the frames are capped before they are selected.
SelectFramesCapped(frames) ==
    LET inApp == SelectSeq(Innermost(frames), IsInApp)
    IN  IF inApp # <<>> THEN inApp ELSE Innermost(frames)

SelectFrames(frames) ==
    LET inApp == SelectSeq(frames, IsInApp)
    IN  Innermost(IF inApp # <<>> THEN inApp ELSE frames)

----------------------------------------------------------------------------
(* Rules.                                                                    *)

\* What a matcher is compared with.
Subjects(in, type) ==
    LET excs == ToSet(in.exceptions)
        frames == UNION {ToSet(e.frames) : e \in excs}
    IN  CASE type = "platform" -> {in.platform}
          [] type = "message" -> {in.message, in.template}
          [] type = "type" -> {e.type : e \in excs}
          [] type = "value" -> {e.value : e \in excs}
          [] type = "module" -> {f.module : f \in frames}
          [] type = "path" -> {FirstNonEmpty(f.abs_path, f.filename) : f \in frames}
          [] OTHER -> {}

\* applyRules: the rules that have parts and matchers, all of which match.
Matching(in, rs) ==
    {k \in DOMAIN rs :
        /\ rs[k].fingerprint # <<>>
        /\ rs[k].matchers # {}
        /\ \A m \in rs[k].matchers :
              \E s \in Subjects(in, m.type) : <<m.pattern, s>> \in GlobMatch}

\* ApplyEnhancements: the first rule that matches a frame decides its hint.
ApplyEnhancements(in, rs) ==
    LET subject(f, r) == IF r.match_module THEN f.module ELSE FirstNonEmpty(f.abs_path, f.filename)
        applying(f) == {k \in DOMAIN rs : <<rs[k].pattern, subject(f, rs[k])>> \in GlobMatch}
        forced(f) ==
            IF applying(f) = {} THEN f
            ELSE [f EXCEPT !.in_app =
                    {rs[CHOOSE k \in applying(f) : \A i \in applying(f) : k <= i].in_app}]
    IN  [in EXCEPT !.exceptions =
            [i \in DOMAIN @ |-> [@[i] EXCEPT !.frames = [j \in DOMAIN @ |-> forced(@[j])]]]]

----------------------------------------------------------------------------
(* Fingerprint.                                                              *)

HashParts(ns, parts) == <<ns>> \o parts

\* Frames, else the innermost exception, else the template, else the message.
DefaultFingerprint(in) ==
    LET exc == Last(in.exceptions)
        frames == IF in.exceptions = <<>> THEN <<>> ELSE SelectFrames(exc.frames)
        type == IF exc.type # "" THEN <<NormalSymbol[exc.type]>> ELSE <<>>
        part(f) == <<NormalizeModule(f), NormalSymbol[f.function]>>
    IN  IF frames # <<>> THEN
             HashParts("stack", type \o FlattenSeq([j \in DOMAIN frames |-> part(frames[j])]))
        ELSE IF in.exceptions # <<>> /\ (exc.type # "" \/ exc.value # "") THEN
             HashParts("exc", <<NormalSymbol[exc.type], NormalMessage[exc.value]>>)
        ELSE IF in.template # "" THEN HashParts("tmpl", <<in.template>>)
        ELSE IF in.message # "" THEN HashParts("msg", <<NormalMessage[in.message]>>)
        ELSE HashParts("fallback", <<>>)

OnlyDefault(parts) == ToSet(parts) \subseteq {Default}

\* A text among the parts is made a sequence, as the spliced fingerprint is one.
FingerprintOf(in, rs) ==
    LET matching == Matching(in, rs)
        first == CHOOSE k \in matching : \A i \in matching : k <= i
        text(p) == <<"text", p>>
        spliced(p) == IF p = Default THEN DefaultFingerprint(in) ELSE text(p)
        parts == in.fingerprint
    IN  IF matching # {} THEN
             HashParts("rule", [j \in DOMAIN rs[first].fingerprint |-> text(rs[first].fingerprint[j])])
        ELSE IF ~OnlyDefault(parts) THEN
             HashParts("custom", [j \in DOMAIN parts |-> spliced(parts[j])])
        ELSE DefaultFingerprint(in)

\* The input ExtractEvent makes of an event.
GroupingInput(se) ==
    [platform |-> se.platform, fingerprint |-> se.fingerprint, exceptions |-> se.exceptions,
     template |-> se.logentry.message, message |-> FirstNonEmpty(se.logentry.formatted, se.message)]

\* ExtractEvent calls Fingerprint without rules.
IssueOf(se) == FingerprintOf(GroupingInput(se), <<>>)

----------------------------------------------------------------------------
(* What a group is.                                                          *)

Frame(module, function, path, hint) ==
    [module |-> module, function |-> function, filename |-> path, abs_path |-> "", in_app |-> hint]

\* Application code, by its module, by its path and by a hint; a library, and
\* code the SDK says is one.
AppFrames == {Frame("app", "f", "", {}), Frame("", "g", "src", {}), Frame("lib", "h", "", {TRUE})}
SystemFrames == {Frame("", "f", "lib", {}), Frame("app", "h", "", {FALSE})}

\* Some of them have one normal form.
SomeTypes == {"", "T", "T$1", "U"}
SomeValues == {"", "v1", "v2"}
SomeExceptions == [type: SomeTypes, value: SomeValues,
                   frames: BoundedSeq(AppFrames \cup SystemFrames, MaxFrames + 1)]
SomeParts == {<<>>, <<Default>>, <<"a">>, <<"a", Default>>}
Input(parts, excs, template, message) ==
    [platform |-> "go", fingerprint |-> parts, exceptions |-> excs, template |-> template,
     message |-> message]
Unruled(in) == FingerprintOf(in, <<>>)

WithFrames(exc, frames) == [exc EXCEPT !.frames = frames]

\* Texts of one normal form, an outer exception, a message beside an exception, frames of libraries beside
\* frames of the application, and frames outside the innermost MaxFrames of it.
NoiseIgnored ==
    \A exc \in SomeExceptions, parts \in {<<>>, <<"a", Default>>} :
        LET of(e) == Unruled(Input(parts, <<e>>, "", ""))
            inApp == SelectSeq(exc.frames, IsInApp)
            named == exc.frames # <<>> \/ exc.type # "" \/ exc.value # ""
        IN  /\ \A outer \in {[type |-> "U", value |-> "v1", frames |-> <<f>>] : f \in AppFrames} :
                  Unruled(Input(parts, <<outer, exc>>, "", "")) = of(exc)
            /\ \A t \in SomeTypes \ {""}, v \in SomeValues \ {""} :
                  /\ exc.type # "" /\ NormalSymbol[t] = NormalSymbol[exc.type]
                  /\ exc.frames # <<>> \/ NormalMessage[v] = NormalMessage[exc.value]
                  => of([exc EXCEPT !.type = t, !.value = v]) = of(exc)
            /\ named => Unruled(Input(parts, <<exc>>, "t", "v1")) = of(exc)
            /\ inApp # <<>> =>
                  \A f \in SystemFrames, k \in 1..(Len(exc.frames) + 1) :
                      of(WithFrames(exc, InsertAt(exc.frames, k, f))) = of(exc)
            /\ Len(inApp) >= MaxFrames =>
                  \A f \in AppFrames : of(WithFrames(exc, <<f>> \o exc.frames)) = of(exc)

\* Another type of the innermost exception, another frame among those that count,
\* another text among the parts; and no text is taken for what it may be spliced with.
CauseSeparates ==
    \A exc \in SomeExceptions, parts \in {<<>>, <<Default>>, <<"a", Default>>} :
        LET of(e) == Unruled(Input(parts, <<e>>, "t", ""))
        IN  /\ \A type \in SomeTypes :
                  NormalSymbol[type] # NormalSymbol[exc.type] => of([exc EXCEPT !.type = type]) # of(exc)
            /\ \A k \in DOMAIN exc.frames, f \in AppFrames :
                  /\ IsInApp(exc.frames[k])
                  /\ f # exc.frames[k]
                  /\ Len(SelectSeq(SubSeq(exc.frames, k, Len(exc.frames)), IsInApp)) <= MaxFrames
                  => of(WithFrames(exc, ReplaceAt(exc.frames, k, f))) # of(exc)
            /\ \A other \in SomeParts :
                  (ToSet(other) \ {Default}) # (ToSet(parts) \ {Default}) =>
                      Unruled(Input(other, <<exc>>, "t", "")) # of(exc)

\* A rule that does not match changes nothing, one that does unites all that match,
\* and an enhancement that says a frame is none of the application's removes it.
RulesOverride ==
    LET rule == [matchers |-> {[type |-> "type", pattern |-> "T*"], [type |-> "value", pattern |-> "v*"]},
                 fingerprint |-> <<"r">>]
        system == [pattern |-> "src*", match_module |-> FALSE, in_app |-> FALSE]
        kept(frames) == SelectSeq(frames, LAMBDA f : IsInApp(f) /\ f.filename # "src")
    IN  \A exc \in SomeExceptions, parts \in SomeParts :
            LET in == Input(parts, <<exc>>, "t", "")
                ruled == FingerprintOf(in, <<[rule EXCEPT !.fingerprint = <<>>], rule>>)
            IN  /\ IF <<"T*", exc.type>> \in GlobMatch /\ exc.value # ""
                   THEN ruled = HashParts("rule", <<<<"text", "r">>>>)
                   ELSE ruled = Unruled(in)
                /\ kept(exc.frames) # <<>> =>
                      Unruled(ApplyEnhancements(in, <<system>>)) =
                          Unruled(Input(parts, <<WithFrames(exc, kept(exc.frames))>>, "t", ""))
====
