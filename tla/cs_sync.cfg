\* A page that lives on notifications and one that polls while the game is played.
SPECIFICATION FairSpec
CONSTANTS
  MaxVersion = 3
  Setups <- TwoPages
PROPERTIES CatchesUp ReadsItsWrites
