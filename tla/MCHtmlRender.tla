---------------------------- MODULE MCHtmlRender ----------------------------
(* Blocks, inlines and tables apart, with the flags that change what nodes *)
(* of these kinds write: a table with a head, a body, a row in each and a  *)
(* cell has seven nodes, and a note's list with a block in it six.         *)
EXTENDS HtmlRender

BlockKinds == {"BlockQuote", "Bullets", "Definitions", "Notes", "Item", "Term",
               "Def", "Note", "Paragraph", "Heading", "HorizontalRule", "CodeBlock",
               "HTMLBlock", "NoteRef", "Text"}
InlineKinds == {"Paragraph"} \cup Inlines
TableKinds == {"Table", "TableHead", "TableBody", "TableRow", "TableCell", "Text"}

Config(flags, kinds, size) == [flags |-> flags, kinds |-> kinds, size |-> size]

MCConfigs ==
  {Config({}, BlockKinds, 4),
   Config({"COMPLETE_PAGE", "SKIP_HTML", "FOOTNOTE_RETURN_LINKS"}, BlockKinds, 5)}
    \cup {Config(f, InlineKinds, 5) :
            f \in {{}, {"SKIP_LINKS"}, {"SAFELINK", "SKIP_IMAGES"},
                   {"SMARTYPANTS", "SMARTYPANTS_FRACTIONS", "SKIP_HTML"}}}
    \cup {Config({}, TableKinds, 7)}
=============================================================================
