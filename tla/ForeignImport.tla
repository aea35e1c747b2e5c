--------------------------- MODULE ForeignImport ---------------------------
(***************************************************************************)
(* One item of a foreign vault on its way into the store: the parsers for  *)
(* CSV, Bitwarden and KeePass exports (bypass-core/src/import/), the       *)
(* mapping they share (import.rs), and what entry.rs and otp.rs read from  *)
(* the body that was written.  How paths collide is part of Store.         *)
(*                                                                         *)
(* A value is a token <<kind, id>>: its kind says what the code can do to  *)
(* it, its id which value it is, whatever has been done to it.             *)
(***************************************************************************)
EXTENDS Naturals, Sequences, SequencesExt

CONSTANTS
    Words,    \* names of custom fields, in lower case
    MaxSlug   \* bound on the length of the names that are slugged

ASSUME ForeignImportAssumption == "" \notin Words /\ MaxSlug \in Nat

VARIABLES
    item,      \* the item of the export
    progress,  \* "read", "parsed", "written", "skipped", "refused", "panicked" or "slug"
    entry,     \* its ImportedEntry
    body,      \* the lines of the body
    report,    \* the kinds of notes in the LossinessReport
    title      \* a name, as a sequence of characters, and nothing else

importVars == <<item, progress, entry, body, report, title>>

\* The elements of s at the positions `at`, in their order.
Pick(s, at) ==
    LET upTo[n \in 0..Len(s)] ==
            IF n = 0 THEN <<>>
            ELSE IF n \in at THEN Append(upTo[n - 1], s[n])
            ELSE upTo[n - 1]
    IN  upTo[Len(s)]

-----------------------------------------------------------------------------
(***************************************************************************)
(* slug_path and RelPath::validate.                                        *)
(***************************************************************************)
\* A letter or digit that is kept, one that is lowercased, punctuation that is
\* kept, whitespace, and everything that is stripped.
Chars == {"a", "A", ".", "-", "/", " ", "!"}

\* First pass: strip, lowercase, whitespace becomes a dash.
Mapped(s) ==
    LET kept == Pick(s, {i \in DOMAIN s : s[i] # "!"})
    IN  [i \in DOMAIN kept |-> CASE kept[i] = "A" -> "a" [] kept[i] = " " -> "-"
                                 [] OTHER -> kept[i]]

\* The segments between slashes, the empty ones included.
Segments(s) ==
    LET upTo[n \in 0..Len(s)] ==
            IF n = 0 THEN <<<<>>>>
            ELSE IF s[n] = "/" THEN Append(upTo[n - 1], <<>>)
            ELSE [upTo[n - 1] EXCEPT ![Len(upTo[n - 1])] = Append(@, s[n])]
    IN  upTo[Len(s)]

NonEmpty(segs) == Pick(segs, {n \in DOMAIN segs : segs[n] # <<>>})

Joined(segs) ==
    FlattenSeq([n \in DOMAIN segs |-> IF n = 1 THEN segs[n] ELSE <<"/">> \o segs[n]])

\* Second pass: of a run of dashes the first is left, between two others.
Normed(seg) ==
    Pick(seg, {i \in DOMAIN seg :
                  \/ seg[i] # "-"
                  \/ /\ i > 1 /\ seg[i - 1] # "-"
                     /\ \E j \in i..Len(seg) : seg[j] # "-"})

NormedSegments(s) == [n \in DOMAIN Segments(Mapped(s)) |-> Normed(Segments(Mapped(s))[n])]

\* Faulty variant: segments that became empty stay.
SlugSegmentsAll(s) == NormedSegments(s)

SlugSegments(s) == NonEmpty(NormedSegments(s))

\* RelPath::new of the segments joined with slashes.
ValidPath(segs) ==
    segs # <<>> /\ \A n \in DOMAIN segs : segs[n] \notin {<<>>, <<".">>, <<".", ".">>}

-----------------------------------------------------------------------------
(***************************************************************************)
(* The exports.                                                            *)
(***************************************************************************)
\* "padded" has whitespace around it, "cr" a carriage return in it, "lines"
\* several lines, one of which reads `login: ...`.
Blank == <<"blank", 0>>
Some(v) == IF v = Blank THEN <<>> ELSE <<v>>
Plain(i) == {Blank, <<"text", i>>}
Values(i) == Plain(i) \cup {<<"padded", i>>, <<"lines", i>>}

\* What there is to a name, for slug_path.
Names(i) == Values(i) \cup ({"sign", "dots", "tree"} \X {i})
Spelling(v) ==
    [blank |-> <<>>, text |-> <<"a">>, padded |-> <<" ", "a", " ">>, lines |-> <<"a", " ", "a">>,
     sign |-> <<"!">>, dots |-> <<".", ".">>, tree |-> <<"a", "/", "A">>][v[1]]

\* The name of a column, string or field is a pair: "own" is the spelling that
\* the importer knows, "colon" a longer name that has the word before a colon.
Own(word) == <<word, "own">>
CustomKeys == Words \X {"lower", "other", "colon"}

NoItem == [folder |-> <<>>, name |-> <<>>, password |-> Blank, username |-> Blank,
           fields |-> <<>>, totp |-> Blank, notes |-> Blank, uris |-> <<>>]

\* What CsvSchema::parse tells apart, whatever the case of the letters.
RoleWords == {"name", "folder", "password", "username", "login", "url", "uri", "totp", "otpauth",
              "notes", "note", "-", "_", "skip"}
PlainRoles == {Own(w) : w \in {"password", "username", "url", "totp", "notes", "skip"}}
KnownRoles == PlainRoles \cup {Own("name"), Own("folder")}
CustomRoles == {k \in CustomKeys : k[1] \in RoleWords => k[2] = "colon"}

\* A row under a schema that has a password column.
CsvItems ==
    [format : {"csv"},
     columns : (({Own("name"), Own("folder")} \X Names(1))
                   \cup ((PlainRoles \cup CustomRoles) \X Values(1)))
                \X ({Own("password")} \X (Values(2) \cup {<<"cr", 2>>}))
                \X ((KnownRoles \cup CustomRoles) \X Plain(3))]

\* Type 1 is a login, 2 a note, 3 a card; a field of type 3 is linked.
BitwardenItems ==
    [format : {"bitwarden"}, type : 1..3, name : Plain(1),
     folder : {Blank, <<"dots", 2>>}, username : {Blank, <<"lines", 3>>},
     password : {<<"cr", 4>>}, totp : Plain(5), notes : {Blank, <<"lines", 6>>},
     uris : Plain(7) \X {<<"text", 8>>},
     field : [type : {0, 3}, key : CustomKeys \cup {Own("")}, value : Values(9)]]

\* "TOTP" and "totp" are read like "otp"; <<"", "other">> is nothing but spaces.
KnownKeys == {Own(w) : w \in {"Title", "UserName", "Password", "URL", "Notes", "otp", ""}}
KeepassKeys == KnownKeys \cup {<<"", "other">>}
                  \cup (CustomKeys \ {<<"otp", "lower">>, <<"totp", "lower">>})
KeepassItems ==
    [format : {"keepass"}, group : {<<>>, <<<<"dots", 4>>>>}, binaries : 0..1,
     strings : (KeepassKeys \X Values(1)) \X (KeepassKeys \X Plain(2))
                  \X ({Own("Title")} \X (Plain(3) \cup {<<"sign", 3>>}))]

Items == CsvItems \cup BitwardenItems \cup KeepassItems

\* Columns or strings with this name that hold anything: the last one counts,
\* or all of them do.
Holding(pairs, key) == {i \in DOMAIN pairs : pairs[i][1] = key /\ pairs[i][2] # Blank}

LastOf(pairs, key) ==
    LET at == Holding(pairs, key) IN IF at = {} THEN Blank ELSE pairs[Max(at)][2]

AllOf(pairs, key) ==
    LET found == Pick(pairs, Holding(pairs, key)) IN [i \in DOMAIN found |-> found[i][2]]

\* Those with a name that means nothing to the importer.
Custom(pairs, known) ==
    Pick(pairs, {i \in DOMAIN pairs : pairs[i][1] \notin known /\ pairs[i][2] # Blank})

Parsed(how, e, notes) == [how |-> how, entry |-> e, notes |-> notes]

Trim(v) == IF v[1] = "padded" THEN <<"text", v[2]>> ELSE v
Trimmed(row) == [i \in DOMAIN row.columns |-> <<row.columns[i][1], Trim(row.columns[i][2])>>]

\* csv.rs, build_entry.  What is trimmed is not reported.
ParseCsv(row) ==
    LET cols == Trimmed(row)
        name == Spelling(LastOf(cols, Own("name")))
        folder == NonEmpty(Segments(Spelling(LastOf(cols, Own("folder")))))
        e == [folder |-> IF name = <<>> /\ folder # <<>> THEN Front(folder) ELSE folder,
              name |-> IF name = <<>> /\ folder # <<>> THEN Last(folder) ELSE name,
              password |-> LastOf(cols, Own("password")),
              username |-> LastOf(cols, Own("username")), fields |-> Custom(cols, KnownRoles),
              totp |-> LastOf(cols, Own("totp")), notes |-> LastOf(cols, Own("notes")),
              uris |-> AllOf(cols, Own("url"))]
    IN  IF (name = <<>> /\ folder = <<>>) \/ e.password = Blank
        THEN Parsed("refused", NoItem, {})
        ELSE Parsed("parsed", e, IF name = <<>> THEN {"named by folder"} ELSE {})

\* bitwarden.rs, collect_fields: a field without a name is left out silently.
CollectFields(f) ==
    IF f.type = 3 THEN [kept |-> <<>>, notes |-> {"linked field"}]
    ELSE IF f.key = Own("") THEN [kept |-> <<>>, notes |-> {}]
    ELSE [kept |-> <<<<f.key, f.value>>>>, notes |-> {}]

FilledUris(it) == Pick(it.uris, {i \in DOMAIN it.uris : it.uris[i] # Blank})

\* bitwarden.rs, parse.  An item need not have a name, or be in a folder.
ParseBitwarden(it) ==
    LET fields == CollectFields(it.field)
        common == [NoItem EXCEPT !.folder = IF it.folder = Blank THEN <<>>
                                            ELSE Segments(Spelling(it.folder)),
                                 !.name = Spelling(it.name), !.fields = fields.kept,
                                 !.notes = it.notes]
    IN  CASE it.type = 1 ->
               Parsed("parsed", [common EXCEPT !.password = it.password, !.totp = it.totp,
                                               !.username = it.username, !.uris = FilledUris(it)],
                      fields.notes)
          [] it.type = 2 -> Parsed("parsed", common, fields.notes \cup {"no password"})
          [] OTHER       -> Parsed("skipped", NoItem, {"unsupported item"})

\* keepass.rs, walk_group and build_entry.  The name of the outermost group is
\* dropped, so `group` is what lies below it.  An empty Title or Password
\* replaces an earlier one, other empty strings are passed over.
ParseKeepass(it) ==
    LET LastNamed(key) ==
            LET at == {i \in DOMAIN it.strings : it.strings[i][1] = key}
            IN  IF at = {} THEN Blank ELSE it.strings[Max(at)][2]
        e == [folder |-> [i \in DOMAIN it.group |-> Spelling(it.group[i])],
              name |-> Spelling(LastNamed(Own("Title"))), password |-> LastNamed(Own("Password")),
              username |-> LastOf(it.strings, Own("UserName")),
              fields |-> Custom(it.strings, KnownKeys), totp |-> LastOf(it.strings, Own("otp")),
              notes |-> LastOf(it.strings, Own("Notes")),
              uris |-> Some(LastOf(it.strings, Own("URL")))]
    IN  IF e.name = <<>> THEN Parsed("skipped", NoItem, {"no title"})
        ELSE Parsed("parsed", e, IF it.binaries > 0 THEN {"attachments"} ELSE {})

Parse(it) == CASE it.format = "csv"       -> ParseCsv(it)
               [] it.format = "bitwarden" -> ParseBitwarden(it)
               [] it.format = "keepass"   -> ParseKeepass(it)
-----------------------------------------------------------------------------
(***************************************************************************)
(* The body: its first line, `key: value` lines, a blank line, the notes.  *)
(***************************************************************************)
First(v) == <<"first", v>>
Field(k, v) == <<"field", k, v>>
Note(v) == <<"note", v>>

\* Only the line feeds are reported.
FlattenNewlines(v) == CASE v[1] = "lines" -> <<"flat", v[2]>>
                        [] v[1] = "cr"    -> <<"text", v[2]>>
                        [] OTHER          -> v

UriKey(i) == <<"url", "url-2", "url-3">>[i]

\* The custom fields that can be addressed; the others are dropped.
Named(e) == Pick(e.fields, {i \in DOMAIN e.fields : e.fields[i][1][1] # ""})

\* The `key: value` lines in their order.
Fields(e) ==
    LET kv(k, v) == IF v = Blank THEN <<>> ELSE <<Field(Own(k), FlattenNewlines(v))>>
    IN  kv("login", e.username)
          \o [i \in DOMAIN Named(e) |-> Field(Named(e)[i][1], FlattenNewlines(Named(e)[i][2]))]
          \o kv("otpauth", e.totp)
          \o [i \in DOMAIN e.uris |-> Field(Own(UriKey(i)), FlattenNewlines(e.uris[i]))]

\* Notes keep their lines, and a line of theirs may look like a field.
Notes(e) == IF e.notes = Blank THEN <<>>
            ELSE IF e.notes[1] = "lines"
                 THEN <<Note(e.notes), Field(Own("login"), <<"noted", 0>>)>>
            ELSE <<Note(e.notes)>>

\* Faulty variant: the notes come before the fields.
NotesBeforeFields(e) == <<First(FlattenNewlines(e.password))>> \o Notes(e) \o Fields(e)

\* serialise_body
BodyOf(e) == <<First(FlattenNewlines(e.password))>> \o Fields(e) \o Notes(e)

\* What serialise_body reports.
Flattened(e) ==
    \/ e.password[1] = "lines" \/ e.username[1] = "lines" \/ e.totp[1] = "lines"
    \/ \E i \in DOMAIN Named(e) : Named(e)[i][2][1] = "lines"
    \/ \E i \in DOMAIN e.uris : e.uris[i][1] = "lines"
Changed(e) ==
    (IF Flattened(e) THEN {"flattened"} ELSE {}) \cup
    (IF Named(e) # e.fields THEN {"empty key"} ELSE {})

\* Entry::parse and Entry::field: the first line whose key, up to its first
\* colon and in lower case, is this word.
Lookup(lines, word) ==
    LET at == {i \in DOMAIN lines : lines[i][1] = "field" /\ lines[i][2][1] = word}
        line == lines[Min(at)]
    IN  IF at = {} THEN Blank
        ELSE IF line[2][2] = "colon" THEN <<"rest", line[3][2]>> ELSE Trim(line[3])

\* otp::parse wants a line that starts with otpauth://.  The importers write
\* the URI behind a key; only a note can bring such a line.
OtpLine(lines, uri) == \E i \in DOMAIN lines : lines[i] = Note(uri)

-----------------------------------------------------------------------------
\* The path of an entry, as segments.
PathOf(e) == SlugSegments(Joined(NonEmpty(Append(e.folder, e.name))))

ImportTypeOK ==
    /\ progress \in {"read", "parsed", "written", "skipped", "refused", "panicked", "slug"}
    /\ progress = "written" => ValidPath(PathOf(entry)) /\ Head(body)[1] = "first"
    /\ report \subseteq {"named by folder", "linked field", "no password", "unsupported item",
                         "no title", "attachments", "flattened", "empty key"}
    /\ Len(title) <= MaxSlug

ImportInit ==
    /\ entry = NoItem /\ body = <<>> /\ report = {}
    /\ \/ progress = "read" /\ item \in Items /\ title = <<>>
       \/ progress = "slug" /\ item = <<>> /\ title = <<>>

ParseItem ==
    /\ progress = "read"
    /\ LET p == Parse(item) IN progress' = p.how /\ entry' = p.entry /\ report' = p.notes
    /\ UNCHANGED <<item, body, title>>

\* prepare, for one entry: without a path it is refused (UnnamedEntry), and a
\* path that RelPath::new does not take ends the program.
WriteBody ==
    /\ progress = "parsed"
    /\ \/ /\ PathOf(entry) = <<>>
          /\ progress' = "refused"
          /\ UNCHANGED <<body, report>>
       \/ /\ PathOf(entry) # <<>> /\ ~ ValidPath(PathOf(entry))
          /\ progress' = "panicked"
          /\ UNCHANGED <<body, report>>
       \/ /\ ValidPath(PathOf(entry))
          /\ progress' = "written"
          /\ body' = BodyOf(entry)
          /\ report' = report \cup Changed(entry)
    /\ UNCHANGED <<item, entry, title>>

\* The names that are slugged, one character after the other.
NextName ==
    /\ progress = "slug" /\ Len(title) < MaxSlug
    /\ \E c \in Chars : title' = Append(title, c)
    /\ UNCHANGED <<item, progress, entry, body, report>>

ImportNext == ParseItem \/ WriteBody \/ NextName

ImportSpec == ImportInit /\ [][ImportNext]_importVars

-----------------------------------------------------------------------------
\* Where what an export says of an item belongs: on the first line, in the
\* notes, or under a word.
AtFirst == <<"first", "">>
AtNotes == <<"notes", "">>
AtKey(word) == <<"key", word>>

Place(key) ==
    CASE key \in {Own("password"), Own("Password")} -> AtFirst
      [] key \in {Own("notes"), Own("Notes")}       -> AtNotes
      [] key \in {Own("username"), Own("UserName")} -> AtKey("login")
      [] key \in {Own("totp"), Own("otp")}          -> AtKey("otpauth")
      [] key = Own("URL")                           -> AtKey("url")
      [] OTHER                                      -> AtKey(key[1])

\* Names become the path, the URLs of a row are numbered, the rest is dropped.
Elsewhere == {Own(w) : w \in {"name", "folder", "url", "skip", "Title", ""}}

PairParts(pairs) ==
    {<<Place(pairs[i][1]), pairs[i][2]>> :
        i \in {j \in DOMAIN pairs :
                  /\ pairs[j][1] \notin Elsewhere
                  /\ pairs[j][2] # Blank \/ pairs[j][1] = Own("Password")}}
UriParts(uris) == {<<AtKey(UriKey(i)), uris[i]>> : i \in DOMAIN uris}

\* What an item says, each value with its place.
ItemParts(it) ==
    CASE it.format = "csv" ->
           PairParts(Trimmed(it)) \cup UriParts(AllOf(Trimmed(it), Own("url")))
      [] it.format = "bitwarden" ->
           {p \in {<<AtNotes, it.notes>>} \cup
                  (IF it.type = 1 THEN {<<AtFirst, it.password>>, <<AtKey("login"), it.username>>,
                                        <<AtKey("otpauth"), it.totp>>} ELSE {}) : p[2] # Blank}
             \cup (IF it.type = 1 THEN UriParts(FilledUris(it)) ELSE {})
             \cup (IF it.field.type = 3 \/ it.field.key = Own("") THEN {}
                   ELSE {<<AtKey(it.field.key[1]), it.field.value>>})
      [] it.format = "keepass" -> PairParts(it.strings)

\* The value of this part is at its place.
Kept(p) ==
    \/ p[1] = AtFirst /\ Head(body)[2][2] = p[2][2]
    \/ p[1] = AtNotes /\ \E i \in DOMAIN body : body[i][1] = "note" /\ body[i][2][2] = p[2][2]
    \/ p[1][1] = "key" /\ Lookup(body, p[1][2])[2] = p[2][2]

\* What has a place of its own is found there, whatever the notes contain, and
\* a value whose lines were joined or that could not be written is reported;
\* so are linked fields and items left out (LossinessReport, import.rs:66-73;
\* the parsers; serialise_body, import.rs:275-341; Entry::field,
\* entry.rs:80-86).  No more is promised: of two values with one place the
\* code keeps one in silence, and it strips whitespace and carriage returns.
LossesReported ==
    /\ progress = "written" =>
          \A p \in ItemParts(item) :
              p[2] # Blank /\ (\A q \in ItemParts(item) : q[1] = p[1] => q = p) =>
                 \/ p[1] = AtKey("") /\ "empty key" \in report
                 \/ /\ Kept(p)
                    /\ p[2][1] = "lines" /\ p[1] # AtNotes => "flattened" \in report
    /\ progress = "written" /\ item.format = "bitwarden" =>
          (item.field.type = 3 => "linked field" \in report)
    /\ progress = "skipped" => report # {}

\* `bypass otp` finds the secret that was imported (doc/adr/0027:128: "in the
\* form `bypass-core::otp` already parses").
OtpFound == progress = "written" /\ entry.totp[1] = "text" => OtpLine(body, entry.totp)

\* A slug is empty or a path, and slugging it again changes nothing
\* (slug_path, import.rs:230-267; RelPath::validate, path.rs:44-72).  A segment
\* of nothing but one or two dots is the exception: prepare's expect panics.
SlugsArePaths ==
    LET segs == SlugSegments(title)
        dots == \E n \in DOMAIN segs : segs[n] \in {<<".">>, <<".", ".">>}
    IN  /\ segs # <<>> /\ ~ dots => ValidPath(segs)
        /\ SlugSegments(Joined(segs)) = segs
=============================================================================
