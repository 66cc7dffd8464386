---------------------------- MODULE MCStudioSites ----------------------------
\* Instances of StudioSites for TLC.
EXTENDS StudioSites

\* Every property is about sites that are not stale, and a stale site stays
\* stale: states in which every site is need not be searched further.
SomeSiteIsNotStale == stale # Sites
==============================================================================
