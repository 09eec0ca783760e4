------------------------------ MODULE MCSitemap ------------------------------
(* Every site of three sitemap documents for Sitemap. *)
EXTENDS Sitemap, TLC

CONSTANTS main, news, blog

ThreeDocs == {main, news, blog}
\* No limit and ample documents; and both of them tight.
Settings == {[limit |-> 0, docs |-> 5], [limit |-> 2, docs |-> 1]}
=============================================================================
