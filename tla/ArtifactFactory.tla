---------------------------- MODULE ArtifactFactory ----------------------------
(* Runtime/handlers/artifact_factory.py: generators called by several threads  *)
(* of one process over one export directory. A call writes a file and then     *)
(* asks the file for its size and its hash. What a file holds is known by the  *)
(* call that wrote it.                                                         *)
EXTENDS Naturals, Sequences, SequencesExt, FiniteSets

CONSTANTS Generation,  \* calls of the generators, each made once
          Filename,    \* clean names <<stem, suffix>>
          SourceText   \* code to write: sequences of "{", "}", "(", ")" and "x"

NoCall == "none"
Opener == {"{", "("}
Closer == {"}", ")"}
ASSUME FactoryAssumption == NoCall \notin Generation /\ SourceText \subseteq Seq(Opener \cup Closer \cup {"x"})

VARIABLES
  exported,    \* filename -> [by, whole, code]: the content of the file
  generation   \* call -> [pc, name, size, hash, checked, shared]: size and hash name the
               \* writer seen; checked is the format of the report where that says
               \* syntaxValidated; shared (history) that another call wrote meanwhile

factoryVars == <<exported, generation>>

NoName == <<"", "">>
NoFile == [by |-> NoCall, whole |-> FALSE, code |-> <<>>]
Seen == Generation \cup {NoCall}
\* What a language is checked by: brackets (js, ts, tf, yaml and their long names),
\* a parser (py, python, json), or nothing.
Language == {"brackets", "parsed", "plain"}
Unchecked == "unchecked"

FactoryTypeOK ==
  /\ exported \in [Filename -> [by: Seen, whole: BOOLEAN, code: SourceText \cup {<<>>}]]
  /\ generation \in [Generation -> [pc: {"new", "filling", "fallback", "written", "sized", "done", "raised"},
                                    name: Filename \cup {NoName}, size: Seen, hash: Seen,
                                    checked: Language \cup {Unchecked}, shared: BOOLEAN]]

FactoryInit ==
  /\ exported = [f \in Filename |-> NoFile]
  /\ generation = [g \in Generation |-> [pc |-> "new", name |-> NoName, size |-> NoCall,
                                         hash |-> NoCall, checked |-> Unchecked, shared |-> FALSE]]

\* A write by g, after which it stands at pc; every other call between its write
\* and its report has shared the file.
WritesChecked(g, f, content, pc, checked) ==
  /\ exported' = [exported EXCEPT ![f] = content]
  /\ generation' = [h \in Generation |->
       IF h = g THEN [generation[g] EXCEPT !.pc = pc, !.name = f, !.checked = checked]
       ELSE IF generation[h].name = f /\ generation[h].pc \in {"filling", "fallback", "written", "sized"}
         THEN [generation[h] EXCEPT !.shared = TRUE] ELSE generation[h]]

Writes(g, f, content, pc) == WritesChecked(g, f, content, pc, Unchecked)

Moves(g, pc) == /\ generation' = [generation EXCEPT ![g].pc = pc]
                /\ UNCHANGED exported

Whole(g) == [by |-> g, whole |-> TRUE, code |-> <<>>]
Part(g) == [by |-> g, whole |-> FALSE, code |-> <<>>]

Names(g, suffixes) == {f \in Filename: generation[g].pc = "new" /\ f[2] \in suffixes}

\* The rows go to a file that is open, and a row may raise: what was written stays.
generate_csv_dataset(g) == \E f \in Names(g, {"csv"}): Writes(g, f, Part(g), "filling")

\* Mutant: the report comes before the rows are out.
CsvEndsOpen(g) == generation[g].pc = "filling" /\ Moves(g, "written")

CsvEnds(g) == /\ generation[g].pc = "filling"
              /\ \/ Writes(g, generation[g].name, Whole(g), "written")
                 \/ Moves(g, "raised")

\* pandas writes the workbook, or fails, perhaps with part of it written, and
\* openpyxl saves it again or raises.
generate_excel_spreadsheet(g) == \E f \in Names(g, {"xlsx"}):
  Writes(g, f, Whole(g), "written") \/ Writes(g, f, Part(g), "fallback")
ExcelFallback(g) ==
  /\ generation[g].pc = "fallback"
  /\ Writes(g, generation[g].name, Whole(g), "written") \/ Moves(g, "raised")

\* The others put the content together in memory, which may raise, and save it.
SavesOrRaises(g, suffixes) == \E f \in Names(g, suffixes):
  Writes(g, f, Whole(g), "written") \/ Moves(g, "raised")
generate_word_document(g) == SavesOrRaises(g, {"docx"})
write_markdown_file(g) == SavesOrRaises(g, {"md", "txt"})
generate_pdf_document(g) == SavesOrRaises(g, {"pdf"})
generate_presentation_deck(g) == SavesOrRaises(g, {"pptx"})
generate_config_envelope(g) == SavesOrRaises(g, {"json", "yaml", "yml", "tf"})

\* The check of brackets in JavaScript, YAML and the like: a closing bracket must
\* match the one opened last. What is left open at the end is not looked at.
Closing == [o \in Opener |-> IF o = "{" THEN "}" ELSE ")"]
Refused == <<"refused">>
\* The stack of awaited closings after one more character.
Read(stack, char) ==
  IF stack = Refused THEN Refused
  ELSE IF char \in Opener THEN Append(stack, Closing[char])
  ELSE IF char \notin Closer THEN stack
  ELSE IF stack # <<>> /\ Last(stack) = char THEN Front(stack)
  ELSE Refused
Scan(code) ==
  LET stack[n \in 0..Len(code)] == IF n = 0 THEN <<>> ELSE Read(stack[n - 1], code[n])
  IN stack[Len(code)]
Accepted(code) == Scan(code) # Refused

\* A file of code goes under the very name it is given. Its language is that of the
\* suffix or any the caller names, and the caller may leave out the check. What a
\* parser says is left open.
write_source_artifact(g) ==
  \E f \in Filename, code \in SourceText, lang \in Language, validate_syntax \in BOOLEAN:
    /\ generation[g].pc = "new"
    /\ \/ /\ (validate_syntax /\ lang = "brackets") => Accepted(code)
          /\ WritesChecked(g, f, [by |-> g, whole |-> TRUE, code |-> code], "written",
                           IF validate_syntax THEN lang ELSE Unchecked)
       \/ /\ validate_syntax
          /\ lang = "parsed" \/ (lang = "brackets" /\ ~Accepted(code))
          /\ Moves(g, "raised")

\* dest.stat(), then the result with calculate_sha256()
Sizes(g) ==
  /\ generation[g].pc = "written"
  /\ generation' = [generation EXCEPT ![g].pc = "sized", ![g].size = exported[generation[g].name].by]
  /\ UNCHANGED exported

Hashes(g) ==
  /\ generation[g].pc = "sized"
  /\ generation' = [generation EXCEPT ![g].pc = "done", ![g].hash = exported[generation[g].name].by]
  /\ UNCHANGED exported

FactoryNext == \E g \in Generation:
  \/ generate_csv_dataset(g) \/ CsvEnds(g) \/ generate_excel_spreadsheet(g) \/ ExcelFallback(g)
  \/ generate_word_document(g) \/ write_markdown_file(g) \/ generate_pdf_document(g)
  \/ generate_presentation_deck(g) \/ generate_config_envelope(g) \/ write_source_artifact(g)
  \/ Sizes(g) \/ Hashes(g)

FactorySpec == FactoryInit /\ [][FactoryNext]_factoryVars

----------------------------------------------------------------------------
\* A bracket of code closes nothing: up to it more are closed than opened.
Misclosed(code) == \E j \in DOMAIN code:
  Cardinality({i \in 1..j: code[i] \in Opener}) < Cardinality({i \in 1..j: code[i] \in Closer})

\* A report that no other write came between gives size and hash of the call's
\* own, whole content; a file that is not whole is one whose call has not
\* reported; and where the report of the call whose code stands in a file says
\* that a language of brackets was validated, no bracket of it closes nothing.
ReportsOwn ==
  /\ FactoryTypeOK
  /\ \A g \in Generation: generation[g].pc = "done" /\ ~generation[g].shared =>
       generation[g].size = g /\ generation[g].hash = g
  /\ \A f \in Filename: exported[f].by # NoCall =>
       /\ ~exported[f].whole => generation[exported[f].by].pc # "done"
       /\ generation[exported[f].by].checked = "brackets" => ~Misclosed(exported[f].code)

=============================================================================
