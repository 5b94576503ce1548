\* Three valid requests, a controller in the same process.
CONSTANTS
  MaxActions = 3
  Callers = {gui}
  Gui = gui
  Methods = {"stop", "disable"}
  Validity = {TRUE}
  Remote = FALSE
SPECIFICATION FairSpec
PROPERTY QueueNeverSticks
