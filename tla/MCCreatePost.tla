---------------------------- MODULE MCCreatePost ----------------------------
(* TLC instances of CreatePost: small sets of texts.                       *)
EXTENDS CreatePost

\* One word the filter refuses (9); an empty text, one too long (the bound is
\* two words), one without a hashtag, texts that repeat a hashtag.
MCTexts == {<<>>, <<Plain>>, <<1, 1>>, <<2, 1>>, <<9, 1>>, <<Plain, 2, 2>>}

\* More hashtags than are asked for, one of them ahead.
MCTextsTop == {<<1, 2>>, <<9, 9>>}
=============================================================================
