---------------------------- MODULE NotebookExport ----------------------------
(***************************************************************************)
(* scripts/notebooks_to_html.py, notebooks_to_pdf.py, notebooks_to_webpdf.py *)
(*                                                                          *)
(* Each goes through the NOTEBOOKS: nbconvert makes HTML in a temporary     *)
(* folder, a browser prints it, the result goes to an output folder, which  *)
(* the two PDF scripts share.  What nbconvert and the browser return is     *)
(* ignored: any file they leave counts, one cut short as well.  webpdf does *)
(* all that in memory.  The scripts may run beside each other while         *)
(* notebooks are edited.                                                    *)
(***************************************************************************)
EXTENDS Naturals, Sequences

CONSTANTS
    NOTEBOOKS,  \* their names, in the scripts' order
    MaxEdits,   \* bound: changes of notebooks
    MaxRuns     \* bound: runs of the scripts

Scripts == {"html", "pdf", "webpdf"}
OUT_DIR == [html |-> "printable-html", pdf |-> "submission-pdfs", webpdf |-> "submission-pdfs"]
Names == {NOTEBOOKS[i] : i \in DOMAIN NOTEBOOKS}

\* A file is the version of the notebook it was made from, 0 where there is none,
\* and what cut it short: a converter, the script's own writing, or nothing.
Files == [of : Nat, cut : {"no", "converting", "writing"}]
NoFile == [of |-> 0, cut |-> "no"]
Whole(version) == [of |-> version, cut |-> "no"]
Cut(file, by) == [file EXCEPT !.cut = by]

VARIABLES
    source,     \* per notebook its version
    outputs,    \* per output folder and notebook, the file and who wrote it
    at,         \* per script, the notebook it is at; 0: it does not run
    step,       \* per script, what it does with it next
    tmp,        \* per script and notebook, the files of its temporary folder
    ok,         \* per script, the notebooks it reported OK
    begun,      \* (history) per script, the versions when it started
    edits, runs

vars == <<source, outputs, at, step, tmp, ok, begun, edits, runs>>

NoFiles == [n \in Names |-> [html |-> NoFile, pdf |-> NoFile]]

Init ==
    /\ source = [n \in Names |-> 1]
    /\ outputs = [d \in {"printable-html", "submission-pdfs"} |->
                     [n \in Names |-> [file |-> NoFile, by |-> "nobody"]]]
    /\ at = [s \in Scripts |-> 0] /\ step = [s \in Scripts |-> "convert"]
    /\ tmp = [s \in Scripts |-> NoFiles] /\ ok = [s \in Scripts |-> {}]
    /\ begun = [s \in Scripts |-> source] /\ edits = 1 /\ runs = 0

-----------------------------------------------------------------------------
Edit(n) ==
    /\ edits < MaxEdits /\ edits' = edits + 1
    /\ source' \in {[source EXCEPT ![n] = edits'], [source EXCEPT ![n] = 0]}
    /\ UNCHANGED <<outputs, at, step, tmp, ok, begun, runs>>

\* (slip) A folder of a fixed name: what a run that died has left is there.
MkdtempFixed(s) == tmp[s]

\* tempfile.mkdtemp never gives a folder twice.
Mkdtemp(s) == NoFiles

\* notebooks_to_pdf.py does not start without a browser.
Start(s) ==
    /\ at[s] = 0 /\ runs < MaxRuns /\ runs' = runs + 1
    /\ at' = [at EXCEPT ![s] = 1] /\ step' = [step EXCEPT ![s] = "convert"]
    /\ tmp' = [tmp EXCEPT ![s] = Mkdtemp(s)]
    /\ ok' = [ok EXCEPT ![s] = {}] /\ begun' = [begun EXCEPT ![s] = source]
    /\ UNCHANGED <<source, outputs, edits>>

Does(s, what, n) ==
    /\ at[s] \in DOMAIN NOTEBOOKS /\ n = NOTEBOOKS[at[s]] /\ step[s] = what

Goes(s, next) == step' = [step EXCEPT ![s] = next] /\ UNCHANGED at
NextNotebook(s) == at' = [at EXCEPT ![s] = @ + 1] /\ step' = [step EXCEPT ![s] = "convert"]

\* SKIP: notebook not found
Skip(s, n) ==
    /\ Does(s, "convert", n) /\ source[n] = 0 /\ NextNotebook(s)
    /\ UNCHANGED <<source, outputs, tmp, ok, begun, edits, runs>>

\* Whether nbconvert worked is told by the file: one it has not finished is taken.
NbConvert(s, n) ==
    /\ s # "webpdf" /\ Does(s, "convert", n) /\ source[n] # 0
    /\ \E html \in {tmp[s][n].html, Whole(source[n]), Cut(Whole(source[n]), "converting")} :
          /\ tmp' = [tmp EXCEPT ![s][n].html = html]
          /\ IF html = NoFile THEN NextNotebook(s)
             ELSE Goes(s, IF s = "pdf" THEN "print" ELSE "write")
    /\ UNCHANGED <<source, outputs, ok, begun, edits, runs>>

\* The stylesheet is put in, and the browser prints what there is, some of it, or
\* nothing.
PrintPdf(n) ==
    /\ Does("pdf", "print", n)
    /\ \E pdf \in {tmp["pdf"][n].pdf, tmp["pdf"][n].html, Cut(tmp["pdf"][n].html, "converting")} :
          /\ tmp' = [tmp EXCEPT !["pdf"][n].pdf = pdf]
          /\ IF pdf = NoFile THEN NextNotebook("pdf") ELSE Goes("pdf", "write")
    /\ UNCHANGED <<source, outputs, ok, begun, edits, runs>>

\* webpdf reads and prints in memory; an exception is caught: FAIL.
ReadAndRender(n) ==
    /\ Does("webpdf", "convert", n) /\ source[n] # 0
    /\ \/ /\ tmp' = [tmp EXCEPT !["webpdf"][n].pdf = Whole(source[n])] /\ Goes("webpdf", "write")
       \/ NextNotebook("webpdf") /\ UNCHANGED tmp
    /\ UNCHANGED <<source, outputs, ok, begun, edits, runs>>

Made(s, n) == IF s = "html" THEN tmp[s][n].html ELSE tmp[s][n].pdf
File(s, n, file) == outputs' = [outputs EXCEPT ![OUT_DIR[s]][n] = [file |-> file, by |-> s]]

WriteOutput(s, n) ==
    /\ Does(s, "write", n)
    /\ File(s, n, Made(s, n)) /\ ok' = [ok EXCEPT ![s] = @ \cup {n}]
    /\ NextNotebook(s) /\ UNCHANGED <<source, tmp, begun, edits, runs>>

\* Reading what was made or writing it raises, before the output is touched or
\* with some of it written.  webpdf catches it and goes on; the others end.
Ends(s) == at' = [at EXCEPT ![s] = 0] /\ UNCHANGED step
WriteRaises(s, n) ==
    /\ Does(s, "write", n) /\ (UNCHANGED outputs \/ File(s, n, Cut(Made(s, n), "writing")))
    /\ IF s = "webpdf" THEN NextNotebook(s) ELSE Ends(s)
    /\ UNCHANGED <<source, tmp, ok, begun, edits, runs>>

\* subprocess.TimeoutExpired of the browser, or HTML that cannot be decoded: tmp
\* stays.
Dies(s) ==
    /\ \E n \in Names : Does(s, "print", n)
    /\ Ends(s) /\ UNCHANGED <<source, outputs, tmp, ok, begun, edits, runs>>

\* Status 0 when any notebook was converted.
Finish(s) ==
    /\ at[s] > Len(NOTEBOOKS) /\ Ends(s)
    /\ tmp' = [tmp EXCEPT ![s] = NoFiles]
    /\ UNCHANGED <<source, outputs, ok, begun, edits, runs>>

Next ==
    \/ \E n \in Names : Edit(n) \/ PrintPdf(n) \/ ReadAndRender(n)
    \/ \E s \in Scripts :
          \/ Start(s) \/ Dies(s) \/ Finish(s)
          \/ \E n \in Names : Skip(s, n) \/ NbConvert(s, n) \/ WriteOutput(s, n) \/ WriteRaises(s, n)

Spec == Init /\ [][Next]_vars

-----------------------------------------------------------------------------
(* Properties *)

\* A notebook a script has reported OK has an output made from the notebook as it
\* was when the run started or later, which the script has written to its end,
\* whatever earlier runs that died have left; only the other script of the same
\* folder may replace it.  webpdf's output is whole.  The other two report OK as
\* well what nbconvert or the browser has cut short.
ExportsAreCurrent ==
    \A s \in Scripts : \A n \in ok[s] :
        LET output == outputs[OUT_DIR[s]][n]
        IN  output.by = s =>
                /\ output.file.of # 0 /\ output.file.of >= begun[s][n]
                /\ output.file.cut # "writing"
                /\ s = "webpdf" => output.file.cut = "no"
=============================================================================
