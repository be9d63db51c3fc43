SPECIFICATION FairSpec
CONSTANTS
  Sizes = {1}
  buffer_max_size = 1
  MaxSpurious = 1
PROPERTIES
  PlayResumes
