---------------------------- MODULE MCChunkPackage ----------------------------
EXTENDS ChunkPackageProperties

Child(kind, title, lead, words, starts, ends) ==
    [kind |-> kind, title |-> title, lead |-> lead, words |-> words,
     starts |-> starts, ends |-> ends]

\* Each class of start and end, texts below the minimum and above the maximum, of one word
\* and of several, with a heading (one longer than the maximum), a running header or
\* nothing but punctuation.
Shapes ==
    {Child("text", 0, "none", <<1>>, "joins", "open"),
     Child("text", 0, "none", <<3>>, "joins", "closed"),
     Child("text", 0, "none", <<7>>, "fresh", "closed"),
     Child("text", 0, "none", <<2, 2, 7>>, "fresh", "soft"),
     Child("text", 1, "none", <<4, 3>>, "section", "open"),
     Child("text", 6, "none", <<2>>, "joins", "closed"),
     Child("text", 0, "header", <<>>, "joins", "open"),
     Child("text", 0, "header", <<3>>, "joins", "open"),
     Child("text", 0, "punct", <<>>, "joins", "soft"),
     Child("text", 0, "punct", <<2>>, "fresh", "closed"),
     Child("media", 0, "none", <<2>>, "fresh", "open"),
     Child("rows", 0, "none", <<6>>, "fresh", "open"),
     Child("rows", 0, "none", <<1>>, "joins", "open"),
     Child("inline", 0, "none", <<1>>, "joins", "open"),
     Child("inline", 0, "none", <<2, 4>>, "fresh", "closed")}
===============================================================================
