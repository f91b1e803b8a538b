---------------------------- MODULE SmartDecode -----------------------------
(***************************************************************************)
(* smartDecode of src/fetcher.go: the lines that the body of a source is   *)
(* taken for, decided by the look of the text: a Clash file, links, base64 *)
(* as a whole, or line by line.                                            *)
(*                                                                         *)
(* A body is its Clash entries, if it is a Clash file, and its lines: links*)
(* (which end with a name), other text, and texts in base64. Of base64 it  *)
(* matters which of its lines are cut, because the base64 is wrapped and   *)
(* one of its rows ends there, how many characters are left over when they *)
(* are taken by four (never one), whether "=" fill them up, and whether the*)
(* text in it ends with a newline. Left out are texts of less than 16      *)
(* characters, rows that do not end on four, links cut within a token or   *)
(* before it, lines mixed into Clash files and the two alphabets.          *)
(***************************************************************************)
EXTENDS ClashForm

Body(entries, content) == [entries |-> entries, lines |-> content]

(* Entries and lines are lists, and base64 is never of nothing.            *)
IsList(s) == s \in Seq(ToSet(s))
IsText(body) ==
  /\ IsList(body.entries) /\ IsList(body.lines)
  /\ \A x \in ToSet(body.lines) : x.kind = "base64" =>
       /\ IsList(x.body.entries) /\ IsList(x.body.lines) /\ x.body.lines # << >>
       /\ \A k \in DOMAIN x.cuts : /\ k \in DOMAIN x.body.lines /\ x.body.lines[k].kind = "link"
                                   /\ x.cuts[k] \in 1 .. Len(x.body.lines[k].link.tok)

PlainLine(l) == [kind |-> "link", link |-> l]
OtherLine == [kind |-> "other", link |-> NoLink]
(* cuts: of each line that is cut, the number of tokens on its first row.  *)
Base64(body, cuts, mod, padded, newline) ==
  [kind |-> "base64", link |-> NoLink, body |-> body, cuts |-> cuts, mod |-> mod,
   padded |-> padded, newline |-> newline]

(* hasProtoPrefix, anywhere in the text; isClashYAML *)
HasProtoPrefix(body) == \E k \in DOMAIN body.lines : body.lines[k].kind = "link"
IsClashYAML(body) == body.entries # << >>

(* isLikelyBase64 strips "=" from the end of the text only. *)
IsLikelyBase64(s) == /\ s # << >> /\ \A k \in DOMAIN s : s[k].kind = "base64"
                     /\ \A k \in 1 .. Len(s) - 1 : ~s[k].padded

(* decodeBase64 removes all white space. A single character left over is an*)
(* error; what follows a text that does not end on four is garbage, which  *)
(* is left out.                                                            *)
Decodes(s) == IsLikelyBase64(s) /\ FoldLeft(LAMBDA n, x : n + x.mod, 0, s) % 4 # 1

Sound(s) == LET k == SelectInSeq(s, LAMBDA x : x.mod # 0) IN IF k = 0 THEN Len(s) ELSE k

(* The texts follow each other directly: unless one ends with a newline the*)
(* first line of the next becomes part of the name its last link has.      *)
DecodeBase64(s) ==
  Body(IF Len(s) = 1 THEN s[1].body.entries ELSE << >>,
       FlattenSeq([k \in 1 .. Sound(s) |->
                     IF k = 1 \/ s[k - 1].newline THEN s[k].body.lines ELSE Tail(s[k].body.lines)]))

(* extractLines *)
ExtractLines(body) == [k \in DOMAIN body.lines |-> body.lines[k].link]

ClashOrLines(body) ==
  LET links == ParseClashYAML(body.entries)
  IN  IF IsClashYAML(body) /\ links # << >> THEN links ELSE ExtractLines(body)

(* Line by line, every row of a wrapped text is decoded by itself: of a    *)
(* link that is cut one row gives the beginning, others give some text.    *)
Beginning(x, k) == [x.body.lines[k].link EXCEPT !.tok = SubSeq(@, 1, x.cuts[k])]
Rows(x, k) == IF k \in DOMAIN x.cuts THEN <<Beginning(x, k), NoLink>>
              ELSE <<x.body.lines[k].link>>

DecodeLine(x) == IF x.kind = "base64" THEN FlattenSeq([k \in DOMAIN x.body.lines |-> Rows(x, k)])
                 ELSE <<x.link>>

(* Mutant: everything is taken line by line. *)
LineByLine(body) == FlattenSeq([k \in DOMAIN body.lines |-> DecodeLine(body.lines[k])])
Yields(body) ==
  LET links == ParseClashYAML(body.entries)
  IN  IF IsClashYAML(body) /\ links # << >> THEN links
      ELSE IF HasProtoPrefix(body) THEN ExtractLines(body)
      ELSE IF Decodes(body.lines) THEN ClashOrLines(DecodeBase64(body.lines))
      ELSE FlattenSeq([k \in DOMAIN body.lines |-> DecodeLine(body.lines[k])])
=============================================================================
