\* Signals at any time, crashes and restarts by init.
SPECIFICATION FairSpec
PROPERTIES ShutsDown NoSignalKills
